---- MODULE Spec2Model ----
(***************************************************************************)
(* MadPaster input injection pipeline (src/madpaster.cpp).                 *)
(*                                                                         *)
(* The model follows sendTextToWindowEx: the character walk, the encoder,  *)
(* the two flush loops (FlushInputs, FlushInputsWithPacing), the abort     *)
(* hook (AbortKeyboardProc, InstallAbortHook, RemoveAbortHook) and the     *)
(* modifier reset.  SendInput is the operating system: every call is       *)
(* answered with the number of events it accepted, chosen by the           *)
(* environment.  Sleeps and queue drains have no effect on the state and   *)
(* appear only as the points between two steps at which the keyboard hook  *)
(* may run.                                                                *)
(***************************************************************************)
EXTENDS Integers, Sequences, FiniteSets, TLC

\* ------------------------------------------------------------------------
\* Program constants
\* ------------------------------------------------------------------------
CHUNK_SIZE == 2
maxchar == 45000
MAX_RETRY_COUNT == 3
INTER_CHUNK_PAUSE_MS == 25
PER_CHAR_DELAY_MS == 5
LINE_START_GUARD_CHARS == 3
LINE_START_GUARD_MS == 10
\* g_app.keystrokeDelayMs, the "KeystrokeDelay" setting at its default
keystrokeDelayMs == 3

\* ------------------------------------------------------------------------
\* Bounds of the model
\* ------------------------------------------------------------------------
MaxLen == 3

\* ------------------------------------------------------------------------
\* Inputs
\* ------------------------------------------------------------------------
\* "A": a key with Shift; "ESC": U+001B, the Escape key without modifier;
\* "u": a character with no key on the layout; "CR", "LF": the line breaks.
Chars == {"A", "ESC", "u", "CR", "LF"}

Texts == UNION {[1..n -> Chars] : n \in 0..MaxLen}

InjectionMode == {"Unicode", "VKScancode", "Hybrid", "Auto"}

PacingStrategy == {"Burst", "PerCharacter", "PerEvent"}

\* ------------------------------------------------------------------------
\* Input events (INPUT / KEYBDINPUT)
\* ------------------------------------------------------------------------
KeyEvent(vk, scan, flags) == [wVk |-> vk, wScan |-> scan, dwFlags |-> flags]

\* VkKeyScanExW under the target's layout: low byte (key) and high byte
\* (shift state), or "none" for the result -1.
VkKeyScanExW(ch) ==
    CASE ch = "A"   -> [vk |-> "VK_A", modifiers |-> 1]
      [] ch = "ESC" -> [vk |-> "VK_ESCAPE", modifiers |-> 0]
      [] ch = "'"   -> [vk |-> "VK_OEM_7", modifiers |-> 0]
      [] ch = "@"   -> [vk |-> "VK_Q", modifiers |-> 6]
      [] ch = "l"   -> [vk |-> "VK_L", modifiers |-> 0]
      [] ch = "i"   -> [vk |-> "VK_I", modifiers |-> 0]
      [] ch = "n"   -> [vk |-> "VK_N", modifiers |-> 0]
      [] ch = "e"   -> [vk |-> "VK_E", modifiers |-> 0]
      [] ch = "1"   -> [vk |-> "VK_1", modifiers |-> 0]
      [] ch = "2"   -> [vk |-> "VK_2", modifiers |-> 0]
      [] OTHER      -> [vk |-> "none", modifiers |-> 0]

\* MapVirtualKeyW(vk, MAPVK_VK_TO_VSC)
MapVirtualKeyW(vk) ==
    CASE vk = "VK_A"      -> "0x1E"
      [] vk = "VK_ESCAPE" -> "0x01"
      [] vk = "VK_SHIFT"  -> "0x2A"
      [] vk = "VK_OEM_7"  -> "0x28"
      [] vk = "VK_Q"      -> "0x10"
      [] vk = "VK_L"      -> "0x26"
      [] vk = "VK_I"      -> "0x17"
      [] vk = "VK_N"      -> "0x31"
      [] vk = "VK_E"      -> "0x12"
      [] vk = "VK_1"      -> "0x02"
      [] vk = "VK_2"      -> "0x03"
      [] OTHER            -> "0x00"

\* MapCharacterToVK without the test of the shift state.
MapCharacterToVKAnyModifier(ch) ==
    LET vkResult == VkKeyScanExW(ch) IN
    IF vkResult.vk = "none"
    THEN [success |-> FALSE, vk |-> "0", scancode |-> "0x00", needsShift |-> FALSE]
    ELSE [success |-> TRUE, vk |-> vkResult.vk,
          scancode |-> MapVirtualKeyW(vkResult.vk),
          needsShift |-> (vkResult.modifiers = 1)]

MapCharacterToVK(ch) ==
    LET vkResult == VkKeyScanExW(ch) IN
    IF vkResult.vk = "none"
    THEN [success |-> FALSE, vk |-> "0", scancode |-> "0x00", needsShift |-> FALSE]
    ELSE IF vkResult.modifiers > 1
    THEN [success |-> FALSE, vk |-> "0", scancode |-> "0x00", needsShift |-> FALSE]
    ELSE [success |-> TRUE, vk |-> vkResult.vk,
          scancode |-> MapVirtualKeyW(vkResult.vk),
          needsShift |-> (vkResult.modifiers = 1)]

\* AppendVKCharacterInputs without the release of Shift.
AppendVKCharacterInputsNoShiftUp(buf, ch) ==
    LET mapping   == MapCharacterToVK(ch)
        shiftDown == KeyEvent("VK_SHIFT", MapVirtualKeyW("VK_SHIFT"),
                              {"KEYEVENTF_SCANCODE"})
        down      == KeyEvent(mapping.vk, mapping.scancode,
                              {"KEYEVENTF_SCANCODE"})
        up        == KeyEvent(mapping.vk, mapping.scancode,
                              {"KEYEVENTF_SCANCODE", "KEYEVENTF_KEYUP"})
    IN  IF ~mapping.success THEN buf
        ELSE IF mapping.needsShift
        THEN buf \o <<shiftDown, down, up>>
        ELSE buf \o <<down, up>>

\* AppendVKCharacterInputs pressing Shift after the key.
AppendVKCharacterInputsShiftAfterKey(buf, ch) ==
    LET mapping   == MapCharacterToVK(ch)
        shiftDown == KeyEvent("VK_SHIFT", MapVirtualKeyW("VK_SHIFT"),
                              {"KEYEVENTF_SCANCODE"})
        down      == KeyEvent(mapping.vk, mapping.scancode,
                              {"KEYEVENTF_SCANCODE"})
        up        == KeyEvent(mapping.vk, mapping.scancode,
                              {"KEYEVENTF_SCANCODE", "KEYEVENTF_KEYUP"})
        shiftUp   == KeyEvent("VK_SHIFT", MapVirtualKeyW("VK_SHIFT"),
                              {"KEYEVENTF_SCANCODE", "KEYEVENTF_KEYUP"})
    IN  IF ~mapping.success THEN buf
        ELSE IF mapping.needsShift
        THEN buf \o <<down, shiftDown, up, shiftUp>>
        ELSE buf \o <<down, up>>

\* The buffer after the call; the number of events added is the growth.
AppendVKCharacterInputs(buf, ch) ==
    LET mapping   == MapCharacterToVK(ch)
        shiftDown == KeyEvent("VK_SHIFT", MapVirtualKeyW("VK_SHIFT"),
                              {"KEYEVENTF_SCANCODE"})
        down      == KeyEvent(mapping.vk, mapping.scancode,
                              {"KEYEVENTF_SCANCODE"})
        up        == KeyEvent(mapping.vk, mapping.scancode,
                              {"KEYEVENTF_SCANCODE", "KEYEVENTF_KEYUP"})
        shiftUp   == KeyEvent("VK_SHIFT", MapVirtualKeyW("VK_SHIFT"),
                              {"KEYEVENTF_SCANCODE", "KEYEVENTF_KEYUP"})
    IN  IF ~mapping.success THEN buf
        ELSE IF mapping.needsShift
        THEN buf \o <<shiftDown, down, up, shiftUp>>
        ELSE buf \o <<down, up>>

AppendCharacterInputs(buf, c) ==
    buf \o << KeyEvent("0", c, {"KEYEVENTF_UNICODE"}),
              KeyEvent("0", c, {"KEYEVENTF_UNICODE", "KEYEVENTF_KEYUP"}) >>

\* AppendCharacterWithMode without the fallback of the Hybrid case.
AppendCharacterWithModeNoFallback(buf, ch, m) ==
    CASE m = "Unicode" -> AppendCharacterInputs(buf, ch)
      [] m = "VKScancode" ->
            LET vkBuf == AppendVKCharacterInputs(buf, ch) IN
            IF Len(vkBuf) - Len(buf) = 0
            THEN AppendCharacterInputs(buf, ch) ELSE vkBuf
      [] m = "Hybrid" -> AppendVKCharacterInputs(buf, ch)
      [] OTHER -> AppendCharacterInputs(buf, ch)

AppendCharacterWithMode(buf, ch, m) ==
    CASE m = "Unicode" -> AppendCharacterInputs(buf, ch)
      [] m = "VKScancode" ->
            LET vkBuf == AppendVKCharacterInputs(buf, ch) IN
            IF Len(vkBuf) - Len(buf) = 0
            THEN AppendCharacterInputs(buf, ch) ELSE vkBuf
      [] m = "Hybrid" ->
            LET vkBuf == AppendVKCharacterInputs(buf, ch) IN
            IF Len(vkBuf) - Len(buf) = 0
            THEN AppendCharacterInputs(buf, ch) ELSE vkBuf
      [] OTHER -> AppendCharacterInputs(buf, ch)

\* The six key-up events of ResetModifiers.
ResetModifiersInputs ==
    << KeyEvent("VK_LSHIFT",   "0", {"KEYEVENTF_KEYUP"}),
       KeyEvent("VK_RSHIFT",   "0", {"KEYEVENTF_KEYUP"}),
       KeyEvent("VK_LCONTROL", "0", {"KEYEVENTF_KEYUP"}),
       KeyEvent("VK_RCONTROL", "0", {"KEYEVENTF_KEYUP"}),
       KeyEvent("VK_LMENU",    "0", {"KEYEVENTF_KEYUP"}),
       KeyEvent("VK_RMENU",    "0", {"KEYEVENTF_KEYUP"}) >>

\* The two events of SendEnterKey.
EnterKeyInputs ==
    << KeyEvent("0", "0x1C", {"KEYEVENTF_SCANCODE"}),
       KeyEvent("0", "0x1C", {"KEYEVENTF_SCANCODE", "KEYEVENTF_KEYUP"}) >>

ModifierKeys ==
    {"VK_LSHIFT", "VK_RSHIFT", "VK_LCONTROL", "VK_RCONTROL", "VK_LMENU", "VK_RMENU"}

\* ------------------------------------------------------------------------
\* The keyboard as the low-level hook sees it (KBDLLHOOKSTRUCT)
\* ------------------------------------------------------------------------
\* vkCode of an injected event: a Unicode event is reported as VK_PACKET, a
\* scancode event as the key of its scancode, any other as its wVk.
HookVkCode(ev) ==
    IF "KEYEVENTF_UNICODE" \in ev.dwFlags THEN "VK_PACKET"
    ELSE IF "KEYEVENTF_SCANCODE" \in ev.dwFlags
    THEN CASE ev.wScan = "0x2A" -> "VK_LSHIFT"
           [] ev.wScan = "0x1C" -> "VK_RETURN"
           [] ev.wScan = "0x1E" -> "VK_A"
           [] ev.wScan = "0x01" -> "VK_ESCAPE"
           [] ev.wScan = "0x28" -> "VK_OEM_7"
           [] ev.wScan = "0x10" -> "VK_Q"
           [] ev.wScan = "0x26" -> "VK_L"
           [] ev.wScan = "0x17" -> "VK_I"
           [] ev.wScan = "0x31" -> "VK_N"
           [] ev.wScan = "0x12" -> "VK_E"
           [] ev.wScan = "0x02" -> "VK_1"
           [] ev.wScan = "0x03" -> "VK_2"
           [] OTHER             -> "0"
    ELSE ev.wVk

\* What the hook procedure receives: wParam (key-down or key-up), vkCode and
\* the LLKHF_INJECTED flag, which the system sets on every SendInput event.
HookEvent(vkCode, down, injected) ==
    [vkCode |-> vkCode, down |-> down, injected |-> injected]

InjectedHookEvent(ev) ==
    HookEvent(HookVkCode(ev), "KEYEVENTF_KEYUP" \notin ev.dwFlags, TRUE)

NoEvent == HookEvent("none", FALSE, FALSE)

\* Keys a person can press while a run is in progress.
UserKeyEvents ==
    { HookEvent(vk, down, FALSE) : vk \in {"VK_ESCAPE", "VK_SPACE"},
                                   down \in BOOLEAN }

\* The hook state is [hook, flag, cause]: hook is g_abortHook # nullptr, flag
\* is g_abortRequested, cause the event on which AbortKeyboardProc stored 1.
AbortKeyboardProcNoInjectedTest(h, e) ==
    IF e.down /\ e.vkCode = "VK_ESCAPE"
    THEN [h EXCEPT !.flag = 1, !.cause = e]
    ELSE h

AbortKeyboardProc(h, e) ==
    IF e.down
    THEN IF e.vkCode = "VK_ESCAPE" /\ ~e.injected
         THEN [h EXCEPT !.flag = 1, !.cause = e]
         ELSE h
    ELSE h

AlreadyInstalledNever(h) == FALSE

\* if (g_abortHook) return true;
AlreadyInstalled(h) == h.hook

InstallAbortHook(h) ==
    IF AlreadyInstalled(h) THEN h
    ELSE [hook |-> TRUE, flag |-> 0, cause |-> NoEvent]

RemoveAbortHookKeepsHook(h) ==
    [hook |-> h.hook, flag |-> 0, cause |-> NoEvent]

RemoveAbortHookKeepsFlag(h) ==
    [hook |-> FALSE, flag |-> h.flag, cause |-> h.cause]

RemoveAbortHook(h) ==
    [hook |-> FALSE, flag |-> 0, cause |-> NoEvent]

IsAbortRequested(h) == h.flag # 0

RECURSIVE HookFold(_, _)
\* The hook procedure called for each event of evs in order.
HookFold(h, evs) ==
    IF evs = <<>> THEN h
    ELSE HookFold(AbortKeyboardProc(h, InjectedHookEvent(Head(evs))), Tail(evs))

RECURSIVE ApplyKeys(_, _)
\* The target's modifier keys after it received evs.
ApplyKeys(keys, evs) ==
    IF evs = <<>> THEN keys
    ELSE LET ev == Head(evs)
             vk == HookVkCode(ev)
             k2 == IF vk \notin ModifierKeys THEN keys
                   ELSE IF "KEYEVENTF_KEYUP" \in ev.dwFlags
                        THEN keys \ {vk} ELSE keys \cup {vk}
         IN ApplyKeys(k2, Tail(evs))

\* ------------------------------------------------------------------------
\* State
\* ------------------------------------------------------------------------
VARIABLES
    pc,                 \* position of the pipeline
    text, mode, resolvedMode, strategy,           \* arguments of the run
    i, buffer, charsInBuffer, charsSent, charsSinceNewline,
    flushCtx,           \* which flush is running: "newline", "chunk", "end"
    offset,             \* FlushInputs: offset; FlushInputsWithPacing: i
    sent,               \* FlushInputsWithPacing: sent; FlushInputs: what
                        \* the call has added to *eventsSent
    consecutiveFailures,
    flushOk,            \* return value of FlushInputs
    g_abortHook, g_abortRequested,
    timerPeriod,        \* outstanding timeBeginPeriod(1) requests
    keysDown,           \* modifier keys the target holds down
    exitPath,           \* the return statement taken
    \* observations of the run, read by the properties only
    abortCause,         \* the event that made AbortKeyboardProc store 1
    sentAtAbort,        \* charsSent when the flag was set, -1 before
    lastSubmit,         \* the function that made the latest SendInput call
    rejectedAttempts,   \* while no SendInput call of the run has accepted an
                        \* event: the calls made by the flush loops; -1 after
    escBeforeRun        \* Escape was pressed before the run, which has not
                        \* yet read the flag

runVars   == <<text, mode, resolvedMode, strategy>>
walkVars  == <<i, buffer, charsInBuffer, charsSent, charsSinceNewline>>
flushVars == <<flushCtx, offset, sent, consecutiveFailures, flushOk>>
hookVars  == <<g_abortHook, g_abortRequested, abortCause, sentAtAbort>>
osVars    == <<keysDown, lastSubmit>>
histVars  == <<rejectedAttempts>>

\* The shell around the pipeline: the window procedure and its handlers.
VARIABLES
    isArmed,            \* g_app.isArmed
    countdownRemaining, \* g_app.countdownRemaining
    countdownTimer,     \* IDT_COUNTDOWN is set (SetTimer) and not killed
    callStack,          \* the invocations of sendTextToWindow in progress,
                        \* innermost last; each names its caller
    received            \* the text the latest invocation handed to
                        \* sendTextToWindowEx, as runs of equal characters

\* The target of a run and what reaches it.
VARIABLES
    acceptAll,          \* the system accepts every event of every SendInput
                        \* call (nothing blocks or fills the input queue)
    isRemote,           \* RemoteClientInfo.isRemote of the foreground window
    obs,                \* kept while acceptAll: the events accepted since the
                        \* run began, in order, and the flush calls made
    reported,           \* the calls of progressCallback made by the run, in
                        \* order: <<current, total>>
    diag,               \* the DiagnosticState the run was given; its field
                        \* present is FALSE when the pointer is null
    pauseMs             \* pauseMs of the latest pause after a chunk flush;
                        \* 0 before the first

\* NormalizeSmartCharacters called on its own.
VARIABLES
    normInput,          \* the argument
    normResult,         \* the value returned for it
    normTwice,          \* the value returned for normResult
    normPc              \* "given", "once", "twice"; "none": no call

\* FlushInputs or FlushInputsWithPacing called on its own.
VARIABLES
    flushArg            \* the buffer as it was passed; <<>>: no such call

\* A run without a DiagnosticState followed by the same run with one.
VARIABLES
    twin                \* phase 1: the run without; phase 2: the run with,
                        \* and what the first run did; phase 0: neither

\* InstallAbortHook and RemoveAbortHook called on their own.
VARIABLES
    hooks,              \* the keyboard hooks the system holds for the program
    hookCalls           \* the calls made so far, in order

monitorVars == <<hooks, hookCalls>>

\* A caller of sendTextToWindow followed to its status line.
VARIABLES
    callerText,         \* the source text the caller passed (textContent)
    status              \* what the caller reported after the call

callerVars == <<callerText, status>>

fnVars == <<normInput, normResult, normTwice, normPc, flushArg, twin,
            monitorVars, callerVars>>

shellVars == <<isArmed, countdownRemaining, countdownTimer, callStack,
               received>>

\* Everything outside the pipeline's own state.
auxVars == <<shellVars, acceptAll, isRemote, fnVars>>

\* The state of the pipeline that the shell's handlers do not touch.
pipelineVarsNoFn == <<pc, runVars, walkVars, flushVars, sentAtAbort, osVars,
                      histVars, timerPeriod, exitPath, escBeforeRun, obs,
                      acceptAll, isRemote, reported, diag, pauseMs>>

pipelineVars == <<pipelineVarsNoFn, fnVars>>

vars == <<pc, runVars, walkVars, flushVars, hookVars, osVars, histVars,
          timerPeriod, exitPath, escBeforeRun, auxVars, obs, reported,
          diag, pauseMs>>

\* DiagnosticState(): the counters 0, no error, no mode name.
DiagnosticState ==
    [present |-> TRUE, errors |-> <<>>, totalEventsAttempted |-> 0,
     totalEventsSent |-> 0, totalCharsSent |-> 0,
     totalCharsRequested |-> 0, injectionModeName |-> ""]

\* DiagnosticState* diag = nullptr
NoDiag == [DiagnosticState EXCEPT !.present = FALSE]

\* The error string of each return statement of the pipeline.
ExitError(path) ==
    CASE path = "abort" -> <<"User cancelled with ESC">>
      [] path = "failBeforeNewline" -> <<"FlushInputs failed before newline">>
      [] path = "failChunk" -> <<"FlushInputs failed">>
      [] path = "failAtEnd" -> <<"FlushInputs failed at end">>
      [] OTHER -> <<>>

\* if (diag) diag->totalEventsAttempted += buffer.size()
NoteAttempted(d, n) ==
    IF d.present THEN [d EXCEPT !.totalEventsAttempted = @ + n] ELSE d

\* if (eventsSent) *eventsSent += sent; if (diag) diag->totalEventsSent += sent
NoteSent(d, n) ==
    IF d.present THEN [d EXCEPT !.totalEventsSent = @ + n] ELSE d

\* if (diag) { diag->totalCharsSent = charsSent; diag->RecordError(...); }
RecordExit(d, path, cs) ==
    IF d.present
    THEN [d EXCEPT !.totalCharsSent = cs, !.errors = @ \o ExitError(path)]
    ELSE d

Hk == [hook |-> g_abortHook, flag |-> g_abortRequested, cause |-> abortCause]

\* charsSent at the first moment the flag is found set during a run.
NoteAbort(newFlag) ==
    IF g_abortRequested = 0 /\ newFlag = 1 /\ sentAtAbort = -1
    THEN charsSent ELSE sentAtAbort

\* The numbers of events SendInput can accept out of n.
Accepts(n) == IF acceptAll THEN {n} ELSE 0..n

NoObs == [submitted |-> <<>>, flushes |-> 0, calls |-> <<>>]

ObserveEvents(o, evs) ==
    IF acceptAll THEN [o EXCEPT !.submitted = @ \o evs] ELSE o

ObserveFlush(o) ==
    IF acceptAll THEN [o EXCEPT !.flushes = @ + 1] ELSE o

\* The log obs.calls is kept while a flush function is followed on its own
\* or a run is followed twice.
Watching == flushArg # <<>> \/ twin.phase # 0

\* A SendInput call: the events passed and the number accepted.
ObserveCall(o, events, k) ==
    IF Watching
    THEN [o EXCEPT !.calls = Append(@, [kind |-> "call", events |-> events,
                                        accepted |-> k, at |-> <<>>])]
    ELSE o

\* A key pressed or released by a person, and where the run was.
ObserveKey(o, e) ==
    IF Watching
    THEN [o EXCEPT !.calls = Append(@, [kind |-> "key", events |-> <<e>>,
                                        accepted |-> 0, at |-> <<pc, i>>])]
    ELSE o

\* SendInput(count, events): the system accepts the first k events; each
\* accepted event reaches the target and, when the hook is installed, the
\* hook procedure.
SendInput(caller, events, k) ==
    LET accepted == SubSeq(events, 1, k)
        h == IF g_abortHook THEN HookFold(Hk, accepted) ELSE Hk
    IN  /\ keysDown' = ApplyKeys(keysDown, accepted)
        /\ lastSubmit' = caller
        /\ g_abortHook' = h.hook
        /\ g_abortRequested' = h.flag
        /\ abortCause' = h.cause
        /\ sentAtAbort' = NoteAbort(h.flag)
        /\ obs' = ObserveCall(ObserveEvents(obs, accepted), events, k)

NoTwin == [phase |-> 0, tape |-> <<>>, exitPath |-> "none", charsSent |-> 0]

\* No function is being followed on its own.
NoFnCall ==
    /\ normInput = <<>> /\ normResult = <<>> /\ normTwice = <<>>
    /\ normPc = "none"
    /\ flushArg = <<>>
    /\ hooks = 0 /\ hookCalls = <<>>
    /\ callerText = <<>> /\ status = "none"
    /\ twin = NoTwin

\* WinMain: nothing is armed, no timer is set, no handler is running.
ShellInit ==
    /\ isArmed = FALSE
    /\ countdownRemaining = 0
    /\ countdownTimer = FALSE
    /\ callStack = <<>>
    /\ received = <<>>

PipelineInit ==
    /\ pc = "idle"
    /\ text = <<>> /\ mode = "Auto" /\ resolvedMode = "Auto" /\ strategy = "Burst"
    /\ i = 0 /\ buffer = <<>> /\ charsInBuffer = 0 /\ charsSent = 0
    /\ charsSinceNewline = 0
    /\ flushCtx = "none" /\ offset = 0 /\ sent = 0 /\ consecutiveFailures = 0
    /\ flushOk = TRUE
    /\ g_abortHook = FALSE /\ g_abortRequested = 0
    /\ timerPeriod = 0
    /\ keysDown = {}
    /\ exitPath = "none"
    /\ abortCause = NoEvent /\ sentAtAbort = -1
    /\ lastSubmit = "none"
    /\ rejectedAttempts = 0
    /\ escBeforeRun = FALSE
    /\ isRemote = FALSE
    /\ obs = NoObs
    /\ reported = <<>>
    /\ pauseMs = 0
    /\ diag = NoDiag

\* The pipeline called with any arguments, SendInput accepting any prefix.
Init == PipelineInit /\ ShellInit /\ NoFnCall /\ acceptAll = FALSE

\* ------------------------------------------------------------------------
\* The keyboard
\* ------------------------------------------------------------------------
\* A person presses or releases a key while the hook is installed.
UserKey ==
    /\ g_abortHook
    /\ \E e \in UserKeyEvents :
         LET h == AbortKeyboardProc(Hk, e) IN
         /\ g_abortRequested' = h.flag
         /\ abortCause' = h.cause
         /\ g_abortHook' = h.hook
         /\ sentAtAbort' = NoteAbort(h.flag)
         /\ obs' = ObserveKey(obs, e)
    /\ UNCHANGED <<pc, runVars, walkVars, flushVars, osVars, histVars,
                   timerPeriod, exitPath, escBeforeRun>>
    /\ UNCHANGED auxVars
    /\ UNCHANGED reported
    /\ UNCHANGED diag
    /\ UNCHANGED pauseMs

\* Escape pressed while no hook is installed: no procedure is called.
UserEscapeNoHook ==
    /\ ~g_abortHook
    /\ pc = "idle"
    /\ ~escBeforeRun
    /\ escBeforeRun' = TRUE
    /\ UNCHANGED <<pc, runVars, walkVars, flushVars, hookVars, osVars,
                   histVars, timerPeriod, exitPath>>
    /\ UNCHANGED <<auxVars, obs>>
    /\ UNCHANGED reported
    /\ UNCHANGED diag
    /\ UNCHANGED pauseMs

\* ------------------------------------------------------------------------
\* sendTextToWindowEx
\* ------------------------------------------------------------------------
\* Entry: TimerResolutionGuard, InstallAbortHook, mode resolution,
\* ResetModifiers, the locals of the walk.  SetWindowsHookExW is taken to
\* return a handle; the result of SendInput in ResetModifiers is not read.
ResolveModeKeepsAuto(m) == m

\* The mode name sendTextToWindow writes into the DiagnosticState.
InjectionModeName(m, remote) ==
    LET effectiveMode == IF m # "Auto" THEN m
                         ELSE IF remote THEN "Hybrid" ELSE "Unicode"
        prefix == IF m = "Auto" THEN "Auto -> " ELSE ""
    IN  CASE effectiveMode = "Unicode" -> prefix \o "Unicode"
          [] effectiveMode = "VKScancode" -> prefix \o "VK Scancode"
          [] effectiveMode = "Hybrid" -> prefix \o "Hybrid"
          [] OTHER -> prefix \o "Auto"

\* InjectionMode resolvedMode = mode; if (mode == Auto) resolvedMode = Hybrid;
ResolveMode(m) == IF m = "Auto" THEN "Hybrid" ELSE m

EnterPipeline(t, m, s, k) ==
    /\ LET h0 == InstallAbortHook(Hk)
           accepted == SubSeq(ResetModifiersInputs, 1, k)
           h1 == IF h0.hook THEN HookFold(h0, accepted) ELSE h0
       IN
         /\ text' = t /\ mode' = m /\ strategy' = s
         /\ resolvedMode' = ResolveMode(m)
         /\ timerPeriod' = timerPeriod + 1
         /\ g_abortHook' = h1.hook
         /\ g_abortRequested' = h1.flag
         /\ abortCause' = h1.cause
         /\ keysDown' = ApplyKeys(keysDown, accepted)
         /\ lastSubmit' = "ResetModifiers"
         /\ rejectedAttempts' = IF k = 0 THEN 0 ELSE -1
         /\ obs' = ObserveCall(ObserveEvents(NoObs, accepted),
                                ResetModifiersInputs, k)
         /\ reported' = <<>>
         /\ pauseMs' = 0
    /\ sentAtAbort' = -1
    /\ i' = 0 /\ buffer' = <<>> /\ charsInBuffer' = 0 /\ charsSent' = 0
    /\ charsSinceNewline' = 0
    /\ exitPath' = "none"
    /\ pc' = "loop"
    /\ UNCHANGED <<flushVars, escBeforeRun>>

\* sendTextToWindowEx called with any text, mode and pacing strategy, and
\* without a DiagnosticState (diag = nullptr, the default).
StartRun ==
    /\ pc = "idle"
    /\ \E t \in Texts, m \in InjectionMode, s \in PacingStrategy,
          k \in Accepts(6) : EnterPipeline(t, m, s, k)
    /\ diag' = NoDiag
    /\ UNCHANGED auxVars

\* A return statement of the pipeline: ResetModifiers, RemoveAbortHook, the
\* guard's destructor.
ExitRun(path, k) ==
    LET accepted == SubSeq(ResetModifiersInputs, 1, k)
        h1 == IF g_abortHook THEN HookFold(Hk, accepted) ELSE Hk
        h2 == RemoveAbortHook(h1)
    IN  /\ keysDown' = ApplyKeys(keysDown, accepted)
        /\ lastSubmit' = "ResetModifiers"
        /\ rejectedAttempts' = IF k = 0 THEN rejectedAttempts ELSE -1
        /\ obs' = ObserveCall(ObserveEvents(obs, accepted),
                               ResetModifiersInputs, k)
        /\ diag' = RecordExit(diag, path, charsSent)
        /\ g_abortHook' = h2.hook
        /\ g_abortRequested' = h2.flag
        /\ abortCause' = h2.cause
        /\ sentAtAbort' = NoteAbort(h1.flag)
        /\ timerPeriod' = timerPeriod - 1
        /\ exitPath' = path
        /\ pc' = "done"

\* The test at the top of the loop body.
AbortCheckOnPending(buf, h) == buf # <<>> /\ IsAbortRequested(h)

AbortCheckAnyBuffer(buf, h) == IsAbortRequested(h)

AbortCheck(buf, h) == buf = <<>> /\ IsAbortRequested(h)

\* Loop top, abort flag found set: return (Aborted).
AbortExit ==
    /\ pc = "loop"
    /\ i < Len(text)
    /\ AbortCheck(buffer, Hk)
    /\ \E k \in Accepts(6) : ExitRun("abort", k)
    /\ escBeforeRun' = FALSE
    /\ UNCHANGED <<runVars, walkVars, flushVars>>
    /\ UNCHANGED auxVars
    /\ UNCHANGED reported
    /\ UNCHANGED pauseMs

\* Loop top, no abort: read text[i].
LoopBody ==
    /\ pc = "loop"
    /\ i < Len(text)
    /\ ~AbortCheck(buffer, Hk)
    /\ pc' = "body"
    /\ escBeforeRun' = FALSE
    /\ UNCHANGED <<runVars, walkVars, flushVars, hookVars, osVars, histVars,
                   timerPeriod, exitPath>>
    /\ UNCHANGED <<auxVars, obs>>
    /\ UNCHANGED reported
    /\ UNCHANGED diag
    /\ UNCHANGED pauseMs

\* text[i] of the code (the sequence of the model starts at 1).
CharAt(t, n) == t[n + 1]

IsCRLFSkipNever(t, n) == FALSE

IsCRLFSkip(t, n) ==
    /\ CharAt(t, n) = "CR"
    /\ n + 1 < Len(t)
    /\ CharAt(t, n + 1) = "LF"

IsNewline(c) == c = "LF" \/ c = "CR"

\* '\r' of a CR LF pair: continue.
SkipCR ==
    /\ pc = "body"
    /\ IsCRLFSkip(text, i)
    /\ i' = i + 1
    /\ pc' = "loop"
    /\ UNCHANGED <<runVars, buffer, charsInBuffer, charsSent, charsSinceNewline,
                   flushVars, hookVars, osVars, histVars,
                   timerPeriod, exitPath, escBeforeRun>>
    /\ UNCHANGED <<auxVars, obs>>
    /\ UNCHANGED reported
    /\ UNCHANGED diag
    /\ UNCHANGED pauseMs

\* Entry of a flush loop.
BeginFlush(ctx) ==
    /\ flushCtx' = ctx
    /\ offset' = 0 /\ sent' = 0 /\ consecutiveFailures' = 0
    /\ flushOk' = TRUE
    /\ pc' = "flush"
    /\ obs' = ObserveFlush(obs)

PendingAtNewlineNever(buf) == FALSE

\* if (!buffer.empty()) at a line break
PendingAtNewline(buf) == buf # <<>>

\* Line break with pending characters: flush them first.
NewlineFlush ==
    /\ pc = "body"
    /\ ~IsCRLFSkip(text, i)
    /\ IsNewline(CharAt(text, i))
    /\ PendingAtNewline(buffer)
    /\ BeginFlush("newline")
    /\ diag' = NoteAttempted(diag, Len(buffer))
    /\ UNCHANGED <<runVars, walkVars, hookVars, osVars, histVars,
                   timerPeriod, exitPath, escBeforeRun>>
    /\ UNCHANGED auxVars
    /\ UNCHANGED reported
    /\ UNCHANGED pauseMs

\* if (progressCallback) progressCallback(charsSent, text.size())
ProgressCallbackNever(r, current, total) == r

ProgressCallback(r, current, total) == Append(r, <<current, total>>)

\* Line break, buffer flushed or empty: SendEnterKey, count it, continue.
SendEnter ==
    /\ \/ pc = "enter"
       \/ /\ pc = "body"
          /\ ~IsCRLFSkip(text, i)
          /\ IsNewline(CharAt(text, i))
          /\ ~PendingAtNewline(buffer)
    /\ \E k \in Accepts(2) :
         /\ SendInput("SendEnterKey", EnterKeyInputs, k)
         /\ rejectedAttempts' = IF k = 0 THEN rejectedAttempts ELSE -1
    /\ charsSent' = charsSent + 1
    /\ reported' = ProgressCallback(reported, charsSent', Len(text))
    /\ charsSinceNewline' = 0
    /\ i' = i + 1
    /\ pc' = "loop"
    /\ UNCHANGED <<runVars, buffer, charsInBuffer, flushVars,
                   timerPeriod, exitPath, escBeforeRun>>
    /\ UNCHANGED auxVars
    /\ UNCHANGED diag
    /\ UNCHANGED pauseMs

EffectiveChunkSizeIgnoringStrategy(s) == CHUNK_SIZE

EffectiveChunkSizeOne(s) == 1

EffectiveChunkSizeSwapped(s) == IF s = "Burst" THEN 1 ELSE CHUNK_SIZE

EffectiveChunkSizePerEventBatched(s) ==
    IF s = "PerCharacter" THEN 1 ELSE CHUNK_SIZE

EffectiveChunkSize(s) == IF s = "Burst" THEN CHUNK_SIZE ELSE 1

\* Any other character: encode it; flush when the chunk is full.
AppendChar ==
    /\ pc = "body"
    /\ ~IsNewline(CharAt(text, i))
    /\ buffer' = AppendCharacterWithMode(buffer, CharAt(text, i), resolvedMode)
    /\ charsInBuffer' = charsInBuffer + 1
    /\ charsSinceNewline' = charsSinceNewline + 1
    /\ IF charsInBuffer + 1 >= EffectiveChunkSize(strategy)
       THEN /\ BeginFlush("chunk")
            /\ diag' = NoteAttempted(diag, Len(buffer'))
            /\ i' = i
       ELSE /\ i' = i + 1
            /\ pc' = "loop"
            /\ UNCHANGED <<flushVars, obs, diag>>
    /\ UNCHANGED <<runVars, charsSent, hookVars, osVars, histVars,
                   timerPeriod, exitPath, escBeforeRun>>
    /\ UNCHANGED auxVars
    /\ UNCHANGED reported
    /\ UNCHANGED pauseMs

\* After the loop: flush what is left.
FlushRemaining ==
    /\ pc = "loop"
    /\ i >= Len(text)
    /\ buffer # <<>>
    /\ BeginFlush("end")
    /\ diag' = NoteAttempted(diag, Len(buffer))
    /\ UNCHANGED <<runVars, walkVars, hookVars, osVars, histVars,
                   timerPeriod, exitPath, escBeforeRun>>
    /\ UNCHANGED auxVars
    /\ UNCHANGED reported
    /\ UNCHANGED pauseMs

\* ------------------------------------------------------------------------
\* The flush loops
\* ------------------------------------------------------------------------
\* The observations of one SendInput call of a flush loop.
CountAttempt(k) ==
    IF k = 0 /\ rejectedAttempts >= 0 THEN rejectedAttempts + 1 ELSE -1

\* buffer.data() + offset, remaining: the events of one SendInput call of
\* FlushInputs.
RemainingEventsFromStart(buf, off) == SubSeq(buf, 1, Len(buf) - off)

RemainingEvents(buf, off) == SubSeq(buf, off + 1, Len(buf))

\* consecutiveFailures after a SendInput call that accepted k events.
CountFailuresWraps(cf, k) ==
    IF k > 0 THEN 0 ELSE (cf + 1) % MAX_RETRY_COUNT

CountFailuresNoReset(cf, k) == IF k > 0 THEN cf ELSE cf + 1

CountFailures(cf, k) == IF k > 0 THEN 0 ELSE cf + 1

\* The index of FlushInputsWithPacing after an iteration whose call accepted
\* k events: i++ of the loop, after i-- when the event was rejected.
NextIndexSkipsRejected(idx, k) == idx + 1

NextIndex(idx, k) == IF k > 0 THEN idx + 1 ELSE idx

\* *eventsSent += sent (FlushInputs); sent++ (FlushInputsWithPacing)
AddSentCountsCalls(s, k) == s + 1

AddSent(s, k) == s + k

\* One iteration of the while loop of FlushInputs: SendInput of everything
\* from offset on; the loop ends when offset reaches the total or after
\* MAX_RETRY_COUNT consecutive calls that accepted nothing.
FlushInputs ==
    /\ pc = "flush"
    /\ strategy = "Burst"
    /\ LET total     == Len(buffer)
           remaining == total - offset
       IN \E k \in Accepts(remaining) :
            /\ SendInput("FlushInputs", RemainingEvents(buffer, offset), k)
            /\ diag' = NoteSent(diag, k)
            /\ rejectedAttempts' = CountAttempt(k)
            /\ consecutiveFailures' = CountFailures(consecutiveFailures, k)
            /\ IF k > 0
               THEN /\ offset' = offset + k
                    /\ sent' = AddSent(sent, k)
                    /\ IF offset + k < total
                       THEN UNCHANGED <<pc, buffer, flushOk>>
                       ELSE /\ buffer' = <<>>
                            /\ flushOk' = TRUE
                            /\ pc' = "flushed"
               ELSE /\ UNCHANGED <<offset, sent>>
                    /\ IF consecutiveFailures' >= MAX_RETRY_COUNT
                       THEN /\ buffer' = <<>>
                            /\ flushOk' = FALSE
                            /\ pc' = "flushed"
                       ELSE UNCHANGED <<pc, buffer, flushOk>>
    /\ UNCHANGED <<runVars, i, charsInBuffer, charsSent, charsSinceNewline,
                   flushCtx, timerPeriod, exitPath, escBeforeRun>>
    /\ UNCHANGED auxVars
    /\ UNCHANGED reported
    /\ UNCHANGED pauseMs

\* One iteration of the for loop of FlushInputsWithPacing: SendInput of the
\* event at index offset; a rejected event is tried again, and the loop is
\* left after MAX_RETRY_COUNT consecutive rejections or after the last event.
FlushInputsWithPacing ==
    /\ pc = "flush"
    /\ strategy # "Burst"
    /\ \E k \in Accepts(1) :
         /\ SendInput("FlushInputsWithPacing", <<buffer[offset + 1]>>, k)
         /\ rejectedAttempts' = CountAttempt(k)
         /\ consecutiveFailures' = CountFailures(consecutiveFailures, k)
         /\ offset' = NextIndex(offset, k)
         /\ IF k > 0
            THEN /\ sent' = AddSent(sent, k)
                 /\ IF offset' < Len(buffer)
                    THEN UNCHANGED <<pc, buffer>>
                    ELSE buffer' = <<>> /\ pc' = "flushed"
            ELSE /\ UNCHANGED sent
                 /\ IF consecutiveFailures' >= MAX_RETRY_COUNT \/
                       ~(offset' < Len(buffer))
                    THEN /\ buffer' = <<>>
                         /\ pc' = "flushed"
                    ELSE UNCHANGED <<pc, buffer>>
    /\ UNCHANGED <<runVars, i, charsInBuffer, charsSent, charsSinceNewline,
                   flushCtx, flushOk, timerPeriod, exitPath, escBeforeRun>>
    /\ UNCHANGED auxVars
    /\ UNCHANGED reported
    /\ UNCHANGED diag
    /\ UNCHANGED pauseMs

\* The pipeline's test of the flush result: only the Burst branch has one.
FlushFailedOnlyWithDiag == strategy = "Burst" /\ ~flushOk /\ diag.present

FlushFailed == strategy = "Burst" /\ ~flushOk

\* charsSent += charsInBuffer; charsInBuffer = 0
CountFlushedKeepsPending(cs, cib) == [charsSent |-> cs + cib, charsInBuffer |-> cib]

CountFlushed(cs, cib) == [charsSent |-> cs + cib, charsInBuffer |-> 0]

\* return after "FlushInputs failed before newline"
FailBeforeNewline ==
    /\ pc = "flushed" /\ flushCtx = "newline"
    /\ FlushFailed
    /\ \E k \in Accepts(6) : ExitRun("failBeforeNewline", k)
    /\ UNCHANGED <<runVars, walkVars, flushVars, escBeforeRun>>
    /\ UNCHANGED auxVars
    /\ UNCHANGED reported
    /\ UNCHANGED pauseMs

\* return after "FlushInputs failed"
FailChunk ==
    /\ pc = "flushed" /\ flushCtx = "chunk"
    /\ FlushFailed
    /\ \E k \in Accepts(6) : ExitRun("failChunk", k)
    /\ UNCHANGED <<runVars, walkVars, flushVars, escBeforeRun>>
    /\ UNCHANGED auxVars
    /\ UNCHANGED reported
    /\ UNCHANGED pauseMs

\* return after "FlushInputs failed at end"
FailAtEnd ==
    /\ pc = "flushed" /\ flushCtx = "end"
    /\ FlushFailed
    /\ \E k \in Accepts(6) : ExitRun("failAtEnd", k)
    /\ UNCHANGED <<runVars, walkVars, flushVars, escBeforeRun>>
    /\ UNCHANGED auxVars
    /\ UNCHANGED reported
    /\ UNCHANGED pauseMs

\* After the flush before a line break: count, report, go on to the Enter.
CountBeforeNewline ==
    /\ pc = "flushed" /\ flushCtx = "newline"
    /\ ~FlushFailed
    /\ LET c == CountFlushed(charsSent, charsInBuffer) IN
         /\ charsSent' = c.charsSent
         /\ charsInBuffer' = c.charsInBuffer
         /\ reported' = ProgressCallback(reported, c.charsSent, Len(text))
    /\ pc' = "enter"
    /\ UNCHANGED <<runVars, i, buffer, charsSinceNewline, flushVars, hookVars,
                   osVars, histVars, timerPeriod, exitPath, escBeforeRun>>
    /\ UNCHANGED <<auxVars, obs>>
    /\ diag' = IF strategy # "Burst" THEN NoteSent(diag, sent) ELSE diag
    /\ UNCHANGED pauseMs

\* The PacingConfig of a run: GetDefaultPacingConfig but for the strategy.
PacingConfig(s) ==
    [strategy |-> s,
     perCharDelayMs |-> PER_CHAR_DELAY_MS,
     lineStartGuardChars |-> LINE_START_GUARD_CHARS,
     lineStartGuardMs |-> LINE_START_GUARD_MS,
     baseKeystrokeDelayMs |-> keystrokeDelayMs]

\* The pause after a chunk flush.
PauseMs(config, sinceNewline) ==
    config.baseKeystrokeDelayMs
    + (CASE config.strategy = "Burst" -> INTER_CHUNK_PAUSE_MS
         [] config.strategy = "PerCharacter" -> config.perCharDelayMs
         [] OTHER -> 0)
    + (IF sinceNewline <= config.lineStartGuardChars
       THEN config.lineStartGuardMs ELSE 0)

\* After the flush at a chunk boundary: count, report, pause, next character.
CountChunk ==
    /\ pc = "flushed" /\ flushCtx = "chunk"
    /\ ~FlushFailed
    /\ LET c == CountFlushed(charsSent, charsInBuffer) IN
         /\ charsSent' = c.charsSent
         /\ charsInBuffer' = c.charsInBuffer
         /\ reported' = ProgressCallback(reported, c.charsSent, Len(text))
    /\ i' = i + 1
    /\ pc' = "loop"
    /\ UNCHANGED <<runVars, buffer, charsSinceNewline, flushVars, hookVars,
                   osVars, histVars, timerPeriod, exitPath, escBeforeRun>>
    /\ UNCHANGED <<auxVars, obs>>
    /\ diag' = IF strategy # "Burst" THEN NoteSent(diag, sent) ELSE diag
    /\ pauseMs' = PauseMs(PacingConfig(strategy), charsSinceNewline)

\* After the trailing flush: count and report.
CountAtEnd ==
    /\ pc = "flushed" /\ flushCtx = "end"
    /\ ~FlushFailed
    /\ charsSent' = charsSent + charsInBuffer
    /\ reported' = ProgressCallback(reported, charsSent', Len(text))
    /\ pc' = "loop"
    /\ UNCHANGED <<runVars, i, buffer, charsInBuffer, charsSinceNewline,
                   flushVars, hookVars, osVars, histVars,
                   timerPeriod, exitPath, escBeforeRun>>
    /\ UNCHANGED <<auxVars, obs>>
    /\ diag' = IF strategy # "Burst" THEN NoteSent(diag, sent) ELSE diag
    /\ UNCHANGED pauseMs

\* The last return statement.
NormalExit ==
    /\ pc = "loop"
    /\ i >= Len(text)
    /\ buffer = <<>>
    /\ \E k \in Accepts(6) : ExitRun("end", k)
    /\ escBeforeRun' = FALSE
    /\ UNCHANGED <<runVars, walkVars, flushVars>>
    /\ UNCHANGED auxVars
    /\ UNCHANGED reported
    /\ UNCHANGED pauseMs

\* The pipeline's state once the caller has the result.
ReturnToIdle ==
    /\ pc = "done"
    /\ pc' = "idle"
    /\ text' = <<>> /\ mode' = "Auto" /\ resolvedMode' = "Auto"
    /\ strategy' = "Burst"
    /\ i' = 0 /\ buffer' = <<>> /\ charsInBuffer' = 0 /\ charsSent' = 0
    /\ charsSinceNewline' = 0
    /\ flushCtx' = "none" /\ offset' = 0 /\ sent' = 0
    /\ consecutiveFailures' = 0 /\ flushOk' = TRUE
    /\ exitPath' = "none"
    /\ sentAtAbort' = -1
    /\ lastSubmit' = "none"
    /\ rejectedAttempts' = 0
    /\ escBeforeRun' = FALSE
    /\ obs' = NoObs
    /\ reported' = <<>>
    /\ pauseMs' = 0
    /\ diag' = NoDiag
    /\ UNCHANGED <<g_abortHook, g_abortRequested, abortCause, keysDown,
                   timerPeriod>>

\* The caller has the result; the next run may start.
Return == ReturnToIdle /\ UNCHANGED auxVars

Next ==
    \/ UserKey
    \/ UserEscapeNoHook
    \/ StartRun
    \/ AbortExit
    \/ LoopBody
    \/ SkipCR
    \/ NewlineFlush
    \/ SendEnter
    \/ AppendChar
    \/ FlushRemaining
    \/ FlushInputs
    \/ FlushInputsWithPacing
    \/ FailBeforeNewline
    \/ FailChunk
    \/ FailAtEnd
    \/ CountBeforeNewline
    \/ CountChunk
    \/ CountAtEnd
    \/ NormalExit
    \/ Return

Spec == Init /\ [][Next]_vars

\* ------------------------------------------------------------------------
\* Run states
\* ------------------------------------------------------------------------
FailedPaths == {"failBeforeNewline", "failChunk", "failAtEnd"}

Returned == pc = "done"

Running == pc \notin {"idle", "done"}

Aborted == Returned /\ exitPath = "abort"

Failed == Returned /\ exitPath \in FailedPaths

\* The flush that just ended gave up at the retry bound.
flushExhausted == pc = "flushed" /\ consecutiveFailures >= MAX_RETRY_COUNT

Completed == Returned /\ exitPath = "end"

charsRequested == Len(text)

\* ------------------------------------------------------------------------
\* Properties
\* ------------------------------------------------------------------------
IsAbortExitPoint == pc = "loop" /\ i < Len(text) /\ buffer = <<>>

BoundAfterAbort == IF strategy = "Burst" THEN CHUNK_SIZE ELSE 1

HasPrintable(t) == \E n \in 1..Len(t) : ~IsNewline(t[n])

\* C1: in every state of a run, and so at every return, charsSent is at most
\* the length of the text handed to the pipeline.
C1_CharsSentAtMostRequested == charsSent <= charsRequested

\* A run over a text of full length with a line break and a flushed chunk
\* that returned having counted every character.
C1_Witness ==
    /\ Returned
    /\ Len(text) = MaxLen
    /\ \E n \in 1..Len(text) : IsNewline(text[n])
    /\ HasPrintable(text)
    /\ charsSent = charsRequested

\* C2: at return, charsSent equals the number of characters requested if and
\* only if the run Completed.
C2_EqualIffCompleted ==
    Returned => ((charsSent = charsRequested) <=> Completed)

C4_AbortLatencyOneChunk ==
    /\ [](sentAtAbort >= 0 => charsSent - sentAtAbort <= BoundAfterAbort)
    /\ [][ (IsAbortExitPoint /\ g_abortRequested = 1 /\ pc' # pc)
             => pc' = "done" ]_vars

\* An Aborted Burst run that added a whole chunk after the flag was set,
\* with text still left.
C4_Witness ==
    /\ Aborted
    /\ strategy = "Burst"
    /\ sentAtAbort >= 0
    /\ charsSent - sentAtAbort = CHUNK_SIZE
    /\ i < Len(text)

C6_CleanModifiersAtReturn ==
    Returned => (lastSubmit = "ResetModifiers" /\ keysDown = {})

\* C7: when every submission is rejected, the abort flag is never set and
\* the text has a printable character, the run returns Failed after exactly
\* MAX_RETRY_COUNT (3) submission attempts of character events.
C7_AllRejectedFailsAfterThree ==
    (Returned /\ rejectedAttempts >= 0 /\ sentAtAbort = -1
              /\ HasPrintable(text)) =>
        (Failed /\ rejectedAttempts = 3)

\* C8: after a flush that exhausted its retry bound the pipeline's next step
\* is a return on a failure path, with charsSent unchanged.
C8_ExhaustedFlushIsFatal ==
    [][ (flushExhausted /\ pc' # pc) =>
          /\ pc' = "done"
          /\ exitPath' \in FailedPaths
          /\ charsSent' = charsSent ]_vars

\* C9: the abort flag is set only while the hook is installed and only by a
\* key-down of Escape that is not flagged as injected.
C9_OnlyUserEscapeSetsFlag ==
    g_abortRequested = 1 =>
        /\ g_abortHook
        /\ abortCause = HookEvent("VK_ESCAPE", TRUE, FALSE)

\* The flag is still clear right after the pipeline injected an Escape
\* key-down and key-up.
C9_Witness ==
    /\ pc = "flushed" /\ flushCtx = "chunk"
    /\ g_abortHook
    /\ resolvedMode = "Hybrid"
    /\ CharAt(text, i) = "ESC"
    /\ consecutiveFailures = 0
    /\ g_abortRequested = 0

\* C10: the abort flag is 'not requested' when a run begins its walk and
\* whenever no run is in progress.
C10_FlagClearAtStartAndReturn ==
    /\ [](~Running => g_abortRequested = 0)
    /\ [][ (pc = "idle" /\ pc' # "idle") => g_abortRequested' = 0 ]_vars

\* A run that began after Escape was pressed with no run in progress.
C10_Witness ==
    /\ pc = "loop" /\ i = 0
    /\ escBeforeRun
    /\ g_abortRequested = 0

\* ------------------------------------------------------------------------
\* Typographic normalisation
\* ------------------------------------------------------------------------

\* U+2018, U+2019, U+201C, U+201D, U+2013, U+2014, U+2026
TypographicChars ==
    {"LSQUO", "RSQUO", "LDQUO", "RDQUO", "NDASH", "MDASH", "HELLIP"}

\* The switch of NormalizeSmartCharacters: what one character appends to
\* the result.
NormalizeCharKeepsEllipsis(c) ==
    CASE c \in {"LSQUO", "RSQUO"} -> <<"'">>
      [] c \in {"LDQUO", "RDQUO"} -> <<"\"">>
      [] c \in {"NDASH", "MDASH"} -> <<"-">>
      [] OTHER -> <<c>>

NormalizeChar(c) ==
    CASE c \in {"LSQUO", "RSQUO"} -> <<"'">>
      [] c \in {"LDQUO", "RDQUO"} -> <<"\"">>
      [] c \in {"NDASH", "MDASH"} -> <<"-">>
      [] c = "HELLIP" -> <<".", ".", ".">>
      [] OTHER -> <<c>>

\* A long text is written as its runs of equal characters: <<[ch |-> c,
\* n |-> k], ...>> is c repeated k times, and so on.  Every character of a
\* run appends the same characters to the result, so the run of the result
\* is that many times as long.
NormalizeSmartCharactersOfRuns(input) ==
    [j \in 1..Len(input) |->
        [ch |-> NormalizeChar(input[j].ch)[1],
         n |-> input[j].n * Len(NormalizeChar(input[j].ch))]]

RECURSIVE length(_)

\* std::wstring::length of a text written as runs.
length(t) == IF t = <<>> THEN 0 ELSE Head(t).n + length(Tail(t))

RECURSIVE NormalizeSmartCharacters(_)

NormalizeSmartCharacters(input) ==
    IF input = <<>> THEN <<>>
    ELSE NormalizeChar(Head(input)) \o NormalizeSmartCharacters(Tail(input))

\* ------------------------------------------------------------------------
\* The shell: WndProc and the handlers that start a run
\* ------------------------------------------------------------------------
\* A run started by the shell is followed from the entry of
\* sendTextToWindow to its return.  Between the two, every progress callback
\* (UpdateProgress) empties the thread's message queue and dispatches what it
\* finds to WndProc, so a handler can run inside a run.

\* Largest countdown a person sets in the delay field (the code clamps the
\* field to 0..60).
MaxDelay == 2

\* Deepest nesting of handlers that is followed.
MaxDepth == 3

Callers == {"ExecutePaste", "ExecuteImmediatePaste"}

\* Most runs of equal characters in a text on the clipboard or in the file.
MaxRuns == 2

\* Texts around the length ceiling: runs of a letter or of ellipses, each
\* of one character or nearly as long as the ceiling.
RunLengths == {1, maxchar - 2, maxchar - 1, maxchar}

TextContents ==
    UNION {[1..r -> [ch : {"A", "HELLIP"}, n : RunLengths]] : r \in 1..MaxRuns}

SetHook(h) ==
    /\ g_abortHook' = h.hook
    /\ g_abortRequested' = h.flag
    /\ abortCause' = h.cause

\* sendTextToWindow -> sendTextToWindowEx: the first call is InstallAbortHook.
EnterSendTextToWindow(caller, t) ==
    /\ callStack' = Append(callStack, caller)
    /\ received' = NormalizeSmartCharactersOfRuns(t)
    /\ SetHook(InstallAbortHook(Hk))

ResetArmState ==
    /\ isArmed' = FALSE
    /\ countdownRemaining' = 0
    /\ countdownTimer' = FALSE

\* ExecutePaste, up to the entry of sendTextToWindow.  Either the text is
\* read, its length is below maxchar and the run is entered, or there is no
\* text (empty clipboard, file gone, text too long) and the handler ends with
\* ResetArmState.
ExecutePaste(armed) ==
    \/ /\ Len(callStack) < MaxDepth
       /\ isArmed' = armed
       /\ countdownRemaining' = 0
       /\ countdownTimer' = FALSE
       /\ \E textContent \in TextContents :
            /\ length(textContent) < maxchar
            /\ EnterSendTextToWindow("ExecutePaste", textContent)
    \/ /\ ResetArmState
       /\ UNCHANGED <<callStack, received, g_abortHook, g_abortRequested,
                      abortCause>>

\* StartArmCountdown with the delay field holding d, the validation passed.
StartArmCountdown(d) ==
    IF d > 0
    THEN /\ isArmed' = TRUE
         /\ countdownRemaining' = d
         /\ countdownTimer' = TRUE
         /\ UNCHANGED <<callStack, received, g_abortHook, g_abortRequested,
                        abortCause>>
    ELSE ExecutePaste(TRUE)

\* WM_HOTKEY -> ExecuteImmediatePaste, the text read: the tests made
\* before the run is entered are isArmed and the length of the text.
HotkeyMessage ==
    /\ ~isArmed
    /\ Len(callStack) < MaxDepth
    /\ \E t \in TextContents :
         /\ ~(length(t) >= maxchar)
         /\ EnterSendTextToWindow("ExecuteImmediatePaste", t)
    /\ UNCHANGED <<isArmed, countdownRemaining, countdownTimer, pipelineVars>>

\* WM_COMMAND IDC_BUTTON_ARM: CancelArm when armed, StartArmCountdown when not.
ArmButtonMessage ==
    /\ IF isArmed
       THEN /\ ResetArmState
            /\ UNCHANGED <<callStack, received, g_abortHook,
                           g_abortRequested, abortCause>>
       ELSE \E d \in 0..MaxDelay : StartArmCountdown(d)
    /\ UNCHANGED pipelineVars

\* WM_COMMAND IDM_TRAY_ARM.
TrayArmMessage ==
    /\ ~isArmed
    /\ \E d \in 0..MaxDelay : StartArmCountdown(d)
    /\ UNCHANGED pipelineVars

\* WM_TIMER IDT_COUNTDOWN.
CountdownMessage ==
    /\ countdownTimer
    /\ IF countdownRemaining - 1 <= 0
       THEN ExecutePaste(isArmed)
       ELSE /\ countdownRemaining' = countdownRemaining - 1
            /\ UNCHANGED <<isArmed, countdownTimer, callStack, received,
                           g_abortHook, g_abortRequested, abortCause>>
    /\ UNCHANGED pipelineVars

\* The innermost sendTextToWindow returns: RemoveAbortHook on the way out,
\* and its caller runs to its end (ExecutePaste ends with ResetArmState).
SendTextToWindowReturns ==
    /\ callStack # <<>>
    /\ callStack' = SubSeq(callStack, 1, Len(callStack) - 1)
    /\ SetHook(RemoveAbortHook(Hk))
    /\ IF callStack[Len(callStack)] = "ExecutePaste"
       THEN ResetArmState
       ELSE UNCHANGED <<isArmed, countdownRemaining, countdownTimer>>
    /\ UNCHANGED <<received, pipelineVars>>

ShellNext ==
    \/ HotkeyMessage
    \/ ArmButtonMessage
    \/ TrayArmMessage
    \/ CountdownMessage
    \/ SendTextToWindowReturns
    \/ UserKey

ShellSpec == Init /\ [][ShellNext]_vars

\* C11: every call of InstallAbortHook (a run is entered) and every call of
\* RemoveAbortHook (a run returns) leaves the abort flag "not requested",
\* whether or not the hook was installed when the call was made.
C11_HookCallsLeaveFlagClear ==
    [][Len(callStack') # Len(callStack) => g_abortRequested' = 0]_vars

\* C12: sendTextToWindow is never entered while another invocation of it is
\* still running.
C12_RunsSerialized == Len(callStack) <= 1

\* ------------------------------------------------------------------------
\* sendTextToWindow on a target that accepts every event
\* ------------------------------------------------------------------------
\* The wrapper the shell calls: the text is normalised, the foreground
\* window classified, the pacing taken from GetDefaultPacingConfig and the
\* mode from the setting.  Nobody touches the keyboard during these runs.

\* Longest text pasted, the fixed sample apart.
MaxTextLen == 3

\* "RSQUO": U+2019, a typographic quote; "@": a character the layout types
\* with Ctrl+Alt (AltGr); "A", "u", "CR", "LF" as above.
PasteChars == {"A", "RSQUO", "u", "@", "CR", "LF"}

\* "line1\nline2"
Line1Line2 == <<"l", "i", "n", "e", "1", "LF", "l", "i", "n", "e", "2">>

PasteTexts ==
    UNION {[1..n -> PasteChars] : n \in 1..MaxTextLen} \cup {Line1Line2}

GetDefaultPacingConfigAlwaysBurst(remote) == [strategy |-> "Burst"]

GetDefaultPacingConfig(remote) ==
    [strategy |-> IF remote THEN "PerCharacter" ELSE "Burst"]

SendTextToWindow ==
    /\ pc = "idle"
    /\ \E t \in PasteTexts, remote \in BOOLEAN, m \in InjectionMode,
          diagnosticMode \in BOOLEAN, k \in Accepts(6) :
         LET normalizedText == NormalizeSmartCharacters(t) IN
         /\ isRemote' = remote
         /\ diag' = IF diagnosticMode
                    THEN [DiagnosticState EXCEPT
                            !.totalCharsRequested = Len(normalizedText),
                            !.injectionModeName = InjectionModeName(m, remote)]
                    ELSE NoDiag
         /\ EnterPipeline(normalizedText, m,
                          GetDefaultPacingConfig(remote).strategy, k)
    /\ UNCHANGED <<shellVars, acceptAll, fnVars>>

PasteInit == PipelineInit /\ ShellInit /\ NoFnCall /\ acceptAll = TRUE

PasteNext ==
    \/ SendTextToWindow
    \/ LoopBody
    \/ SkipCR
    \/ NewlineFlush
    \/ SendEnter
    \/ AppendChar
    \/ FlushRemaining
    \/ FlushInputs
    \/ FlushInputsWithPacing
    \/ CountBeforeNewline
    \/ CountChunk
    \/ CountAtEnd
    \/ NormalExit
    \/ Return

PasteSpec == PasteInit /\ [][PasteNext]_vars

\* The events of the character walk when every flush and every Enter is
\* accepted whole: the CR of a CR LF pair gives nothing, any other line break
\* the Enter pair, any other character its encoding.
RECURSIVE WalkEvents(_, _, _)

WalkEvents(t, n, m) ==
    IF n >= Len(t) THEN <<>>
    ELSE IF IsCRLFSkip(t, n) THEN WalkEvents(t, n + 1, m)
    ELSE IF IsNewline(CharAt(t, n))
    THEN EnterKeyInputs \o WalkEvents(t, n + 1, m)
    ELSE AppendCharacterWithMode(<<>>, CharAt(t, n), m)
         \o WalkEvents(t, n + 1, m)

\* The whole stream of such a run: ResetModifiers, the walk, ResetModifiers.
RunEvents(t, m) ==
    ResetModifiersInputs \o WalkEvents(t, 0, m) \o ResetModifiersInputs

\* Each CR LF pair of t replaced by a single LF, in one pass.
RECURSIVE CollapseCRLF(_)

CollapseCRLF(t) ==
    IF t = <<>> THEN <<>>
    ELSE IF Len(t) >= 2 /\ t[1] = "CR" /\ t[2] = "LF"
    THEN <<"LF">> \o CollapseCRLF(SubSeq(t, 3, Len(t)))
    ELSE <<t[1]>> \o CollapseCRLF(Tail(t))

HasCRLF(t) == \E n \in 1..(Len(t) - 1) : t[n] = "CR" /\ t[n + 1] = "LF"

\* C13 as stated: for every text, mode and strategy the events submitted for
\* the text are those submitted for the text with each CR LF pair replaced
\* by a single LF.
C13_CollapsedTextSameStream ==
    Returned => obs.submitted = RunEvents(CollapseCRLF(text), resolvedMode)

\* C13 amended: the submitted events are those of the walk (one Enter per
\* CR LF pair, per lone CR and per lone LF); they are the events of the text
\* with each CR LF pair replaced by a single LF whenever the replacement
\* leaves no CR in front of an LF; a lone CR gives exactly one Enter.
C13_CollapseUnlessNewPair ==
    Returned =>
      /\ obs.submitted = RunEvents(text, resolvedMode)
      /\ ~HasCRLF(CollapseCRLF(text)) =>
           obs.submitted = RunEvents(CollapseCRLF(text), resolvedMode)
      /\ text = <<"CR">> =>
           obs.submitted =
             ResetModifiersInputs \o EnterKeyInputs \o ResetModifiersInputs

\* A finished run on a text with a character and a CR LF pair.
C13_Witness ==
    /\ Returned
    /\ HasCRLF(text)
    /\ HasPrintable(text)
    /\ ~HasCRLF(CollapseCRLF(text))
    /\ obs.submitted = RunEvents(CollapseCRLF(text), resolvedMode)

\* A step that encodes text[i]: the call of AppendCharacterWithMode.
EncodeStep == pc = "body" /\ pc' # "body" /\ ~IsNewline(CharAt(text, i))

\* The events the step appended to the pending buffer.
Appended == SubSeq(buffer', Len(buffer) + 1, Len(buffer'))

\* The layout has no key for the character, or one with Ctrl or Alt.
VKMappingFails(c) ==
    VkKeyScanExW(c).vk = "none" \/ VkKeyScanExW(c).modifiers > 1

\* The two events of Unicode mode: down and up carrying the code unit.
UnicodePair(c) ==
    << [wVk |-> "0", wScan |-> c, dwFlags |-> {"KEYEVENTF_UNICODE"}],
       [wVk |-> "0", wScan |-> c,
        dwFlags |-> {"KEYEVENTF_UNICODE", "KEYEVENTF_KEYUP"}] >>

\* C14: in every executed mode a character that is not a line break is
\* encoded with at least two events, and in Hybrid mode a character whose VK
\* mapping fails with exactly the two Unicode-mode events.
C14_EveryCharAtLeastTwoEvents ==
    [][EncodeStep =>
         /\ resolvedMode \in {"Unicode", "VKScancode", "Hybrid"}
         /\ SubSeq(buffer', 1, Len(buffer)) = buffer
         /\ Len(Appended) >= 2
         /\ (resolvedMode = "Hybrid" /\ VKMappingFails(CharAt(text, i)))
              => Appended = UnicodePair(CharAt(text, i))]_vars

\* Hybrid mode has just encoded a character the layout cannot type and one
\* that needs Ctrl+Alt.
C14_Witness ==
    /\ pc = "flush" /\ flushCtx = "chunk" /\ offset = 0
    /\ resolvedMode = "Hybrid" /\ strategy = "Burst"
    /\ text = <<"u", "@">>
    /\ buffer = UnicodePair("u") \o UnicodePair("@")

\* C15: the VK encoder adds exactly 2 events for a character whose key needs
\* no modifier and exactly 4 for one whose key needs Shift only; no
\* character is encoded with an odd number of events.
C15_VKEventCounts ==
    [][EncodeStep =>
         LET c     == CharAt(text, i)
             r     == VkKeyScanExW(c)
             added == Len(AppendVKCharacterInputs(buffer, c)) - Len(buffer)
         IN  /\ (r.vk # "none" /\ r.modifiers = 0) => added = 2
             /\ (r.vk # "none" /\ r.modifiers = 1) => added = 4
             /\ added \in {0, 2, 4}
             /\ resolvedMode = "VKScancode" /\ ~VKMappingFails(c)
                  => Len(Appended) = added
             /\ Len(Appended) % 2 = 0]_vars

\* VKScancode mode has just encoded a Shift character with four events.
C15_Witness ==
    /\ pc = "flush" /\ flushCtx = "chunk" /\ offset = 0
    /\ resolvedMode = "VKScancode" /\ strategy = "PerCharacter"
    /\ CharAt(text, i) = "A"
    /\ Len(buffer) = 4

ControlAltKeys ==
    {"VK_CONTROL", "VK_LCONTROL", "VK_RCONTROL", "VK_MENU", "VK_LMENU", "VK_RMENU"}

IsControlAlt(ev) == ev.wVk \in ControlAltKeys \/ HookVkCode(ev) \in ControlAltKeys

\* C16: a character whose mapping needs Ctrl or Alt, or that has no mapping,
\* is rejected by the VK encoder, which adds nothing to the buffer; no event
\* waiting in the buffer is a Ctrl or Alt event, and every Ctrl or Alt event
\* submitted is a key-up of ResetModifiers.
C16_NoControlAltFromEncoder ==
    /\ (pc = "body" /\ VKMappingFails(CharAt(text, i)))
         => /\ ~MapCharacterToVK(CharAt(text, i)).success
            /\ AppendVKCharacterInputs(buffer, CharAt(text, i)) = buffer
    /\ \A n \in 1..Len(buffer) : ~IsControlAlt(buffer[n])
    /\ \A n \in 1..Len(obs.submitted) :
         IsControlAlt(obs.submitted[n])
           => /\ "KEYEVENTF_KEYUP" \in obs.submitted[n].dwFlags
              /\ \E j \in 1..Len(ResetModifiersInputs) :
                   obs.submitted[n] = ResetModifiersInputs[j]

\* A finished VKScancode run on a text with a Ctrl+Alt character.
C16_Witness ==
    /\ Returned
    /\ resolvedMode = "VKScancode"
    /\ \E n \in 1..Len(text) : text[n] = "@"
    /\ \E n \in 1..Len(obs.submitted) : obs.submitted[n] = UnicodePair("@")[1]

C18_PacingFollowsTarget ==
    /\ [](pc # "idle" =>
            /\ strategy = "PerCharacter" <=> isRemote
            /\ strategy = "Burst" <=> ~isRemote
            /\ strategy # "PerEvent"
            /\ strategy = GetDefaultPacingConfig(isRemote).strategy)
    /\ [][(pc # "idle" /\ pc' # "idle") => strategy' = strategy]_vars

\* A flush of a run on a remote target.
C18_Witness ==
    /\ pc = "flush" /\ offset > 0
    /\ isRemote
    /\ strategy = "PerCharacter"

\* The Unicode pairs of the characters of t, in order.
RECURSIVE UnicodePairs(_)

UnicodePairs(t) ==
    IF t = <<>> THEN <<>> ELSE UnicodePair(Head(t)) \o UnicodePairs(Tail(t))

\* The Enter key-downs among the events of a stream.
EnterCount(stream) ==
    Cardinality({n \in 1..Len(stream) : stream[n] = EnterKeyInputs[1]})

LocalUnicodeSample ==
    text = Line1Line2 /\ ~isRemote /\ mode = "Unicode" /\ pc # "idle"

\* C19: "line1\nline2" on a local target in Unicode mode, every submission
\* accepted and no Escape: between the two modifier resets the stream is the
\* pairs of l,i,n,e,1, one Enter pair, the pairs of l,i,n,e,2; the flushes
\* hold two characters each, except the "1" flushed at the line break and the
\* "2" flushed after the walk; the run is Completed with charsSent = 11.
C19_LocalUnicodeBurstSample ==
    LocalUnicodeSample =>
      /\ strategy = "Burst"
      /\ charsInBuffer <= CHUNK_SIZE
      /\ pc = "flush" =>
           CASE flushCtx = "newline" -> buffer = UnicodePair("1")
             [] flushCtx = "end"     -> buffer = UnicodePair("2")
             [] OTHER -> /\ i >= 1
                         /\ buffer = UnicodePairs(SubSeq(text, i, i + 1))
      /\ Returned =>
           /\ obs.submitted =
                ResetModifiersInputs
                \o UnicodePairs(<<"l", "i", "n", "e", "1">>)
                \o EnterKeyInputs
                \o UnicodePairs(<<"l", "i", "n", "e", "2">>)
                \o ResetModifiersInputs
           /\ obs.flushes = 6
           /\ Completed
           /\ charsSent = 11
           /\ charsRequested = 11

C19_Witness == LocalUnicodeSample /\ Completed /\ charsSent = 11

RemoteHybridSample ==
    text = Line1Line2 /\ isRemote /\ mode = "Hybrid" /\ pc # "idle"

\* C20: "line1\nline2" on a remote target in Hybrid mode: the pacing is
\* PerCharacter, the pending buffer never holds more than one character,
\* and when the run returns there were as many flushes as printable
\* characters (10) and one Enter submission for the line break.
C20_RemoteHybridSample ==
    RemoteHybridSample =>
      /\ strategy = "PerCharacter"
      /\ charsInBuffer <= 1
      /\ buffer # <<>> =>
           buffer = AppendCharacterWithMode(<<>>, CharAt(text, i), "Hybrid")
      /\ obs.flushes + EnterCount(obs.submitted) <= charsSent + 1
      /\ Returned =>
           /\ obs.flushes = Cardinality({n \in 1..Len(text) : ~IsNewline(text[n])})
           /\ obs.flushes = 10
           /\ EnterCount(obs.submitted) = 1
           /\ Completed

C20_Witness ==
    /\ RemoteHybridSample
    /\ Returned
    /\ obs.flushes = 10
    /\ EnterCount(obs.submitted) = 1

\* ------------------------------------------------------------------------
\* The progress channel
\* ------------------------------------------------------------------------

\* The step after a flush call has returned.
FlushReturnStep == pc = "flushed" /\ pc' # "flushed"

\* The step that sends an Enter for a line break.
EnterStep == pc \in {"enter", "body"} /\ charsSent' # charsSent

ReportStep == reported' = Append(reported, <<charsSent', Len(text)>>)

ReportedValuesOrdered ==
    /\ \A n \in 1..Len(reported) :
         /\ reported[n][2] = Len(text)
         /\ reported[n][1] <= reported[n][2]
    /\ \A n \in 1..(Len(reported) - 1) : reported[n][1] <= reported[n + 1][1]
    /\ (Returned /\ charsSent > 0) =>
         /\ reported # <<>>
         /\ reported[Len(reported)][1] = charsSent

\* C21 as stated: progressCallback(charsSent, text length) is called after
\* every flush and after every Enter; the reported values never decrease,
\* never exceed the total, and the last one is the charsSent returned when
\* at least one character was counted.
C21_ReportAfterEveryFlush ==
    /\ []ReportedValuesOrdered
    /\ [][(FlushReturnStep \/ EnterStep) => ReportStep]_vars

\* C21, amended: progressCallback(charsSent, text length) is called after
\* every Enter and after every flush that the run continues past (a Burst
\* flush that gave up returns before the callback); the reported values never
\* decrease, never exceed the total, and the last one is the charsSent
\* returned when at least one character was counted.
C21_ReportAfterCountedFlush ==
    /\ []ReportedValuesOrdered
    /\ [][((FlushReturnStep /\ ~FlushFailed) \/ EnterStep) => ReportStep]_vars
    /\ [][(FlushReturnStep /\ FlushFailed) => reported' = reported]_vars

\* A run of three characters returned after a report for a flush, one for
\* an Enter and one for the trailing flush.
C21_Witness ==
    /\ Returned
    /\ Len(text) = 3 /\ IsNewline(CharAt(text, 1))
    /\ Len(reported) = 3
    /\ reported[3][1] = charsSent
    /\ charsSent = 3

\* ------------------------------------------------------------------------
\* The diagnostic record
\* ------------------------------------------------------------------------

\* C23 as stated: with a DiagnosticState, a run that was aborted, that had a
\* flush give up at the retry bound (under any pacing strategy), or that
\* returns fewer characters than requested, has recorded an error string.
C23_AbnormalExitRecordsError ==
    /\ [](Returned /\ diag.present /\
            (exitPath # "end" \/ charsSent < Len(text))
          => diag.errors # <<>>)
    /\ [][diag.present /\ flushExhausted /\ pc' # "flushed"
          => diag'.errors # <<>>]_vars

\* C24 as stated: the mode name written into the DiagnosticState names the
\* mode the pipeline executes: "Hybrid" after "Auto -> " for a run requested
\* as Auto, whatever the target, and the requested mode otherwise.
C24_ModeNameIsExecutedMode ==
    (Running /\ diag.present /\ diag.injectionModeName # "") =>
        diag.injectionModeName =
            CASE mode = "Auto" -> "Auto -> Hybrid"
              [] resolvedMode = "VKScancode" -> "VK Scancode"
              [] OTHER -> resolvedMode

\* ------------------------------------------------------------------------
\* NormalizeSmartCharacters on its own
\* ------------------------------------------------------------------------

\* Longest text normalised.
MaxNormLen == 3

\* The seven typographic characters, their ASCII images and a letter.
NormChars == TypographicChars \cup {"A", "'", "\"", "-", "."}

NormTexts == UNION {[1..n -> NormChars] : n \in 0..MaxNormLen}

NormInit ==
    /\ PipelineInit /\ ShellInit /\ acceptAll = TRUE
    /\ normInput \in NormTexts
    /\ normResult = <<>> /\ normTwice = <<>>
    /\ normPc = "given"
    /\ flushArg = <<>>
    /\ hooks = 0 /\ hookCalls = <<>>
    /\ callerText = <<>> /\ status = "none"
    /\ twin = NoTwin

\* normalizedText = NormalizeSmartCharacters(text)
Normalize ==
    /\ normPc = "given"
    /\ normResult' = NormalizeSmartCharacters(normInput)
    /\ normPc' = "once"
    /\ UNCHANGED <<normInput, normTwice, flushArg, twin, monitorVars,
                   callerVars>>
    /\ UNCHANGED <<pipelineVarsNoFn, shellVars, hookVars>>

\* NormalizeSmartCharacters applied to its own result.
NormalizeAgain ==
    /\ normPc = "once"
    /\ normTwice' = NormalizeSmartCharacters(normResult)
    /\ normPc' = "twice"
    /\ UNCHANGED <<normInput, normResult, flushArg, twin, monitorVars,
                   callerVars>>
    /\ UNCHANGED <<pipelineVarsNoFn, shellVars, hookVars>>

NormNext == Normalize \/ NormalizeAgain

NormSpec == NormInit /\ [][NormNext]_vars

\* The image the mapping gives to one character.
StatedImage(c) ==
    CASE c = "LSQUO" -> <<"'">>
      [] c = "RSQUO" -> <<"'">>
      [] c = "LDQUO" -> <<"\"">>
      [] c = "RDQUO" -> <<"\"">>
      [] c = "NDASH" -> <<"-">>
      [] c = "MDASH" -> <<"-">>
      [] c = "HELLIP" -> <<".", ".", ".">>
      [] OTHER -> <<c>>

RECURSIVE Images(_)

\* The images of the characters of a text, in order.
Images(t) == IF t = <<>> THEN <<>> ELSE StatedImage(Head(t)) \o Images(Tail(t))

\* C26: NormalizeSmartCharacters maps each curly single quote to ', each
\* curly double quote to ", en and em dash to -, the ellipsis to three dots,
\* and keeps every other character, in order; its result holds none of the
\* seven typographic characters, and normalising the result changes nothing.
C26_NormalizationMapping ==
    /\ normPc \in {"once", "twice"} =>
         /\ normResult = Images(normInput)
         /\ \A n \in 1..Len(normResult) : normResult[n] \notin TypographicChars
    /\ normPc = "twice" => normTwice = normResult

\* Normalised twice: an ellipsis between a curly quote and a dash.
C26_Witness ==
    /\ normPc = "twice"
    /\ normInput = <<"LDQUO", "HELLIP", "MDASH">>
    /\ normResult = <<"\"", ".", ".", ".", "-">>
    /\ normTwice = normResult

\* ------------------------------------------------------------------------
\* The length ceiling
\* ------------------------------------------------------------------------

\* C25 as stated: the text sendTextToWindowEx receives, after the
\* normalisation, is shorter than maxchar = 45000, the ceiling ExecutePaste
\* and ExecuteImmediatePaste enforce.
C25_ReceivedTextBelowCeiling ==
    callStack # <<>> => length(received) < maxchar

\* ------------------------------------------------------------------------
\* FlushInputs and FlushInputsWithPacing on their own
\* ------------------------------------------------------------------------
\* A flush function is called with any buffer; every SendInput call accepts
\* any number of the events passed.  No hook is installed.

\* Longest buffer flushed.
MaxBuf == 3

\* Events that can be told apart.
FlushEvents ==
    {AppendCharacterInputs(<<>>, "u")[1], AppendCharacterInputs(<<>>, "u")[2],
     AppendCharacterInputs(<<>>, "A")[1]}

FlushBuffers == UNION {[1..n -> FlushEvents] : n \in 1..MaxBuf}

FlushInit ==
    /\ pc = "flush"
    /\ buffer \in FlushBuffers
    /\ flushArg = buffer
    /\ hooks = 0 /\ hookCalls = <<>>
    /\ callerText = <<>> /\ status = "none"
    /\ strategy \in PacingStrategy
    /\ text = <<>> /\ mode = "Auto" /\ resolvedMode = "Auto"
    /\ i = 0 /\ charsInBuffer = 0 /\ charsSent = 0
    /\ charsSinceNewline = 0
    /\ flushCtx = "none" /\ offset = 0 /\ sent = 0 /\ consecutiveFailures = 0
    /\ flushOk = TRUE
    /\ g_abortHook = FALSE /\ g_abortRequested = 0
    /\ timerPeriod = 0
    /\ keysDown = {}
    /\ exitPath = "none"
    /\ abortCause = NoEvent /\ sentAtAbort = -1
    /\ lastSubmit = "none"
    /\ rejectedAttempts = 0
    /\ escBeforeRun = FALSE
    /\ isRemote = FALSE
    /\ obs = NoObs
    /\ reported = <<>>
    /\ pauseMs = 0
    /\ diag = NoDiag
    /\ ShellInit
    /\ normInput = <<>> /\ normResult = <<>> /\ normTwice = <<>>
    /\ normPc = "none"
    /\ twin = NoTwin
    /\ acceptAll = FALSE

FlushNext == FlushInputs \/ FlushInputsWithPacing

FlushSpec == FlushInit /\ [][FlushNext]_vars

FlushReturned == pc = "flushed"

RECURSIVE AcceptedCount(_)

\* The events accepted by the calls of a log, counted.
AcceptedCount(cs) ==
    IF cs = <<>> THEN 0 ELSE Head(cs).accepted + AcceptedCount(Tail(cs))

RECURSIVE AcceptedEvents(_)

\* The events accepted by the calls of a log, in order.
AcceptedEvents(cs) ==
    IF cs = <<>> THEN <<>>
    ELSE SubSeq(Head(cs).events, 1, Head(cs).accepted)
         \o AcceptedEvents(Tail(cs))

RECURSIVE TrailingRejections(_)

\* The calls at the end of a log that accepted nothing, counted.
TrailingRejections(cs) ==
    IF cs = <<>> \/ cs[Len(cs)].accepted > 0 THEN 0
    ELSE 1 + TrailingRejections(SubSeq(cs, 1, Len(cs) - 1))

\* The calls of a log that accepted nothing.
Rejections(cs) == {n \in 1..Len(cs) : cs[n].accepted = 0}

\* C27: FlushInputs passes, in every call, all events from the first one not
\* yet accepted to the end of the buffer; the events accepted over the calls
\* are, in order, a prefix of the buffer, none twice and none left out, and
\* the whole buffer when FlushInputs returns true.
C27_BurstAcceptedIsPrefix ==
    strategy = "Burst" =>
        /\ \A n \in 1..Len(obs.calls) :
             LET before == AcceptedCount(SubSeq(obs.calls, 1, n - 1)) IN
               /\ before < Len(flushArg)
               /\ obs.calls[n].events =
                    SubSeq(flushArg, before + 1, Len(flushArg))
        /\ AcceptedEvents(obs.calls) =
             SubSeq(flushArg, 1, AcceptedCount(obs.calls))
        /\ (FlushReturned /\ flushOk) => AcceptedEvents(obs.calls) = flushArg

\* FlushInputs returned true after calls that accepted one event, nothing,
\* and the two events left.
C27_Witness ==
    /\ strategy = "Burst"
    /\ FlushReturned /\ flushOk
    /\ Len(flushArg) = 3
    /\ Len(obs.calls) = 3
    /\ obs.calls[1].accepted = 1
    /\ obs.calls[2].accepted = 0
    /\ obs.calls[3].accepted = 2
    /\ flushArg[1] # flushArg[2] /\ flushArg[2] # flushArg[3]

\* C28: in both flush functions consecutiveFailures is the number of calls
\* that accepted nothing since the latest call that accepted an event; a
\* flush that returns without three such calls in a row has had the whole
\* buffer accepted and reports success (true from FlushInputs, the size of
\* the buffer from FlushInputsWithPacing).
C28_TransientRejectionRecovers ==
    /\ consecutiveFailures = TrailingRejections(obs.calls)
    /\ (FlushReturned /\ TrailingRejections(obs.calls) < MAX_RETRY_COUNT) =>
         /\ AcceptedEvents(obs.calls) = flushArg
         /\ strategy = "Burst" => flushOk
         /\ strategy # "Burst" => sent = Len(flushArg)

\* A flush of three events returned with success after four rejected calls,
\* never three in a row.
C28_Witness ==
    /\ FlushReturned
    /\ Len(flushArg) = 3
    /\ Cardinality(Rejections(obs.calls)) = 4
    /\ AcceptedEvents(obs.calls) = flushArg
    /\ strategy = "Burst" => flushOk
    /\ sent = 3

\* C29: FlushInputsWithPacing passes one event in every call, the event at
\* the index equal to the number of events accepted so far (so a rejected
\* event, the first one too, is passed again before any later one); no call
\* follows three rejected calls in a row; the count returned is the number
\* of accepted events and at most the size of the buffer.
C29_PacedOneEventInOrder ==
    strategy # "Burst" =>
        /\ \A n \in 1..Len(obs.calls) :
             LET before == AcceptedCount(SubSeq(obs.calls, 1, n - 1)) IN
               /\ before < Len(flushArg)
               /\ obs.calls[n].events = <<flushArg[before + 1]>>
               /\ TrailingRejections(SubSeq(obs.calls, 1, n - 1))
                    < MAX_RETRY_COUNT
        /\ sent = AcceptedCount(obs.calls)
        /\ sent <= Len(flushArg)
        /\ (FlushReturned /\ sent < Len(flushArg)) =>
             TrailingRejections(obs.calls) = MAX_RETRY_COUNT

\* The first event was rejected twice and then accepted; the second event
\* was rejected three times and the third never passed.
C29_Witness ==
    /\ strategy # "Burst"
    /\ FlushReturned
    /\ Len(flushArg) = 3
    /\ Len(obs.calls) = 6
    /\ obs.calls[1].accepted = 0 /\ obs.calls[2].accepted = 0
    /\ obs.calls[3].accepted = 1
    /\ obs.calls[1].events = <<flushArg[1]>>
    /\ obs.calls[4].events = <<flushArg[2]>>
    /\ flushArg[1] # flushArg[2]
    /\ sent = 1

\* C30: when FlushInputs or FlushInputsWithPacing has returned, with success
\* or at the retry bound, the buffer is empty and the number of events
\* reported as sent is the number of events SendInput accepted in the call.
C30_BufferEmptyCountExact ==
    FlushReturned =>
        /\ buffer = <<>>
        /\ sent = AcceptedCount(obs.calls)

\* FlushInputs gave up at the retry bound with one of three events accepted.
C30_Witness ==
    /\ FlushReturned
    /\ strategy = "Burst" /\ ~flushOk
    /\ Len(flushArg) = 3
    /\ buffer = <<>>
    /\ sent = 1
    /\ AcceptedCount(obs.calls) = 1

\* ------------------------------------------------------------------------
\* A run without and a run with a DiagnosticState
\* ------------------------------------------------------------------------
\* sendTextToWindowEx is called with diag = nullptr; SendInput accepts all,
\* one or none of the events of a call, and a person may press Escape.  When
\* it has returned it is called again with the same text, mode and pacing
\* and with a DiagnosticState; every SendInput call that passes as many
\* events as the call at the same place in the first run accepts as many,
\* and Escape is pressed at the same place.

\* Longest text of these runs.
MaxDiagLen == 2

\* Most key events of a person during one run.
MaxKeys == 1

\* Most SendInput calls of one run that accept nothing.
MaxRejections == 3

\* Texts of a letter and line feeds, and a CR LF pair.
DiagTexts ==
    UNION {[1..n -> {"A", "LF"}] : n \in 1..MaxDiagLen} \cup {<<"CR", "LF">>}

DiagModes == {"Unicode"}

EscapeDown == HookEvent("VK_ESCAPE", TRUE, FALSE)

DiagInit ==
    /\ PipelineInit /\ ShellInit
    /\ normInput = <<>> /\ normResult = <<>> /\ normTwice = <<>>
    /\ normPc = "none"
    /\ flushArg = <<>>
    /\ hooks = 0 /\ hookCalls = <<>>
    /\ callerText = <<>> /\ status = "none"
    /\ twin = [NoTwin EXCEPT !.phase = 1]
    /\ acceptAll = FALSE

\* The entries of a log that are key events of a person.
KeyEntries(log) == {n \in 1..Len(log) : log[n].kind = "key"}

\* The latest entry of the log of the second run answers as the first run
\* did: a key event is the one the first run had there, at the same place;
\* a call passing as many events as the first run's call accepts as many.
SameAnswer(tape, log) ==
    LET p == Len(log)
        e == log[p]
    IN  IF e.kind = "key"
        THEN p <= Len(tape) /\ tape[p] = e
        ELSE (/\ p <= Len(tape)
              /\ tape[p].kind = "call"
              /\ Len(tape[p].events) = Len(e.events))
             => e.accepted = tape[p].accepted

\* The first run had a key event at this place.
KeyDue ==
    /\ twin.phase = 2
    /\ Len(obs.calls) < Len(twin.tape)
    /\ twin.tape[Len(obs.calls) + 1].kind = "key"
    /\ twin.tape[Len(obs.calls) + 1].at = <<pc, i>>

\* The calls of a log that accepted nothing.
RejectedCalls(log) ==
    {n \in 1..Len(log) : log[n].kind = "call" /\ log[n].accepted = 0}

\* The answers and key events followed in the first run.
Sampled(log) ==
    LET e == log[Len(log)] IN
      /\ e.kind = "call" => e.accepted \in {0, 1, Len(e.events)}
      /\ e.kind = "key" => e.events = <<EscapeDown>>
      /\ Cardinality(RejectedCalls(log)) <= MaxRejections

Replayed ==
    obs'.calls # obs.calls =>
        IF twin.phase = 2 THEN SameAnswer(twin.tape, obs'.calls)
        ELSE Sampled(obs'.calls)

\* The first run: no DiagnosticState.
DiagStartRun ==
    /\ pc = "idle"
    /\ twin.phase = 1
    /\ \E t \in DiagTexts, m \in DiagModes, s \in PacingStrategy,
          k \in Accepts(6) : EnterPipeline(t, m, s, k)
    /\ Sampled(obs'.calls)
    /\ diag' = NoDiag
    /\ UNCHANGED auxVars

\* The second run: the same arguments and a DiagnosticState.
DiagRerun ==
    /\ pc = "done"
    /\ twin.phase = 1
    /\ \E k \in Accepts(6) : EnterPipeline(text, mode, strategy, k)
    /\ SameAnswer(obs.calls, obs'.calls)
    /\ diag' = DiagnosticState
    /\ twin' = [phase |-> 2, tape |-> obs.calls, exitPath |-> exitPath,
                charsSent |-> charsSent]
    /\ UNCHANGED <<shellVars, acceptAll, isRemote, normInput, normResult,
                   normTwice, normPc, flushArg, monitorVars,
                   callerVars>>

DiagUserKey ==
    /\ Running
    /\ Cardinality(KeyEntries(obs.calls)) < MaxKeys
    /\ twin.phase = 2 => KeyDue
    /\ UserKey
    /\ Replayed

DiagStep(A) == ~KeyDue /\ A /\ Replayed

DiagNext ==
    \/ DiagStartRun
    \/ DiagRerun
    \/ DiagUserKey
    \/ DiagStep(AbortExit)
    \/ DiagStep(LoopBody)
    \/ DiagStep(SkipCR)
    \/ DiagStep(NewlineFlush)
    \/ DiagStep(SendEnter)
    \/ DiagStep(AppendChar)
    \/ DiagStep(FlushRemaining)
    \/ DiagStep(FlushInputs)
    \/ DiagStep(FlushInputsWithPacing)
    \/ DiagStep(FailBeforeNewline)
    \/ DiagStep(FailChunk)
    \/ DiagStep(FailAtEnd)
    \/ DiagStep(CountBeforeNewline)
    \/ DiagStep(CountChunk)
    \/ DiagStep(CountAtEnd)
    \/ DiagStep(NormalExit)

DiagSpec == DiagInit /\ [][DiagNext]_vars

\* C22: for the same text, mode, pacing, answers of SendInput and key event
\* of a person, the run with a DiagnosticState makes the same SendInput calls
\* with the same events as the run without, takes the same return statement
\* and returns the same charsSent.
C22_DiagnosticsObserveOnly ==
    (twin.phase = 2 /\ Returned) =>
        /\ obs.calls = twin.tape
        /\ exitPath = twin.exitPath
        /\ charsSent = twin.charsSent

\* Both runs were ended by Escape after a rejected call, and the second has
\* written its error string.
C22_Witness ==
    /\ twin.phase = 2 /\ Returned
    /\ exitPath = "abort"
    /\ diag.present /\ diag.errors # <<>>
    /\ KeyEntries(twin.tape) # {}
    /\ \E n \in 1..Len(twin.tape) :
         twin.tape[n].kind = "call" /\ twin.tape[n].accepted = 0
    /\ obs.calls = twin.tape

\* ------------------------------------------------------------------------
\* Termination
\* ------------------------------------------------------------------------
\* The pipeline runs on one thread: once entered, its next statement is
\* executed (SendInput and Sleep return).  Nothing is assumed of the person
\* at the keyboard, of the answers of SendInput, or of when a run is started.
PipelineStep ==
    \/ AbortExit
    \/ LoopBody
    \/ SkipCR
    \/ NewlineFlush
    \/ SendEnter
    \/ AppendChar
    \/ FlushRemaining
    \/ FlushInputs
    \/ FlushInputsWithPacing
    \/ FailBeforeNewline
    \/ FailChunk
    \/ FailAtEnd
    \/ CountBeforeNewline
    \/ CountChunk
    \/ CountAtEnd
    \/ NormalExit

\* Longest text of the runs followed to their end.
MaxLiveLen == 2

LiveTexts == UNION {[1..n -> Chars] : n \in 0..MaxLiveLen}

LiveStartRun ==
    /\ pc = "idle"
    /\ \E t \in LiveTexts, m \in InjectionMode, s \in PacingStrategy,
          k \in Accepts(6) : EnterPipeline(t, m, s, k)
    /\ diag' = NoDiag
    /\ UNCHANGED auxVars

LiveNext ==
    \/ UserKey
    \/ UserEscapeNoHook
    \/ LiveStartRun
    \/ PipelineStep
    \/ Return

LiveSpec == Init /\ [][LiveNext]_vars /\ WF_vars(PipelineStep)

\* C31: whatever SendInput answers, a flush loop that was entered is left,
\* and a run that was entered returns as Completed, Aborted or Failed.
C31_FlushAndRunTerminate ==
    /\ (pc = "flush") ~> (pc = "flushed")
    /\ Running ~> (Completed \/ Aborted \/ Failed)

\* A run of two characters has returned although the first calls of its
\* flush loops accepted nothing.
C31_Witness ==
    /\ Returned
    /\ Completed \/ Aborted \/ Failed
    /\ Len(text) = 2
    /\ rejectedAttempts >= 2
    /\ flushCtx # "none"

\* ------------------------------------------------------------------------
\* Line-break ordering
\* ------------------------------------------------------------------------
\* The events of the leading ResetModifiers and of the whole text, in the
\* order of the text.
WalkedEvents == ResetModifiersInputs \o WalkEvents(text, 0, resolvedMode)

\* C32: the Enter pair of a line break is submitted when no character is
\* pending, it is one key-down and one key-up of scancode 0x1C, and at every
\* loop iteration the events submitted so far, then those pending, then those
\* of the rest of the text are the events of the text in its order.
C32_LineBreakOrdering ==
    /\ [][EnterStep =>
            /\ buffer = <<>>
            /\ obs'.submitted = obs.submitted \o EnterKeyInputs
            /\ EnterCount(EnterKeyInputs) = 1
            /\ \A n \in 1..2 : EnterKeyInputs[n].wScan = "0x1C"]_vars
    /\ [](pc = "loop" =>
            obs.submitted \o buffer \o WalkEvents(text, i, resolvedMode)
              = WalkedEvents)

\* The Enter of a line break has been submitted after the flush of a
\* character that was pending before it, and a character follows.
C32_Witness ==
    /\ pc = "loop"
    /\ i = 2 /\ Len(text) = 3
    /\ flushCtx = "newline"
    /\ lastSubmit = "SendEnterKey"
    /\ ~IsNewline(CharAt(text, 0)) /\ ~IsNewline(CharAt(text, 2))

\* ------------------------------------------------------------------------
\* The chunk invariant
\* ------------------------------------------------------------------------
IterationStart == pc = "loop" /\ i < Len(text)

\* C33: at the start of every loop iteration fewer characters are pending
\* than the chunk size of the strategy (2 for Burst, 1 for the paced ones);
\* under a paced strategy the buffer is then empty, and no character is read
\* while the abort flag is set.
C33_ChunkInvariant ==
    /\ [](IterationStart =>
            /\ charsInBuffer < (IF strategy = "Burst" THEN 2 ELSE 1)
            /\ strategy # "Burst" => buffer = <<>> /\ charsInBuffer = 0)
    /\ [][(IterationStart /\ strategy # "Burst" /\ pc' = "body")
            => ~IsAbortRequested(Hk)]_vars

\* A paced run at the start of its third iteration, with the abort flag set
\* after two characters were flushed.
C33_Witness ==
    /\ IterationStart
    /\ strategy = "PerCharacter"
    /\ i = 2 /\ charsSent = 2
    /\ IsAbortRequested(Hk)
    /\ buffer = <<>>

\* ------------------------------------------------------------------------
\* The event group of one character
\* ------------------------------------------------------------------------
IsKeyUp(ev) == "KEYEVENTF_KEYUP" \in ev.dwFlags

\* The key an event presses or releases.
KeyOf(ev) == <<ev.wVk, ev.wScan, ev.dwFlags \ {"KEYEVENTF_KEYUP"}>>

RECURSIVE KeysHeld(_, _)
\* The keys that are down after evs, starting from the keys held.
KeysHeld(held, evs) ==
    IF evs = <<>> THEN held
    ELSE KeysHeld(IF IsKeyUp(Head(evs)) THEN held \ {KeyOf(Head(evs))}
                  ELSE held \cup {KeyOf(Head(evs))},
                  Tail(evs))

\* Each key-down of the group has its key-up later in the group.
OwnKeyUps(group) ==
    \A n \in 1..Len(group) :
       ~IsKeyUp(group[n]) =>
          \E k \in (n + 1)..Len(group) :
             IsKeyUp(group[k]) /\ KeyOf(group[k]) = KeyOf(group[n])

\* C34: a character typed through its key is encoded as Shift-down,
\* key-down, key-up, Shift-up when the key needs Shift and as key-down,
\* key-up when it needs none; in every character's group each key-down has
\* its own key-up later in the group, and after a flush that was accepted
\* whole no key is down.
C34_GroupsReleaseTheirKeys ==
    /\ [][EncodeStep =>
            LET c       == CharAt(text, i)
                r       == VkKeyScanExW(c)
                sc      == MapVirtualKeyW(r.vk)
                down    == KeyEvent(r.vk, sc, {"KEYEVENTF_SCANCODE"})
                up      == KeyEvent(r.vk, sc,
                                    {"KEYEVENTF_SCANCODE", "KEYEVENTF_KEYUP"})
                shiftDn == KeyEvent("VK_SHIFT", "0x2A", {"KEYEVENTF_SCANCODE"})
                shiftUp == KeyEvent("VK_SHIFT", "0x2A",
                                    {"KEYEVENTF_SCANCODE", "KEYEVENTF_KEYUP"})
                typed   == resolvedMode \in {"VKScancode", "Hybrid"}
                           /\ ~VKMappingFails(c)
            IN  /\ (typed /\ r.modifiers = 1)
                     => Appended = <<shiftDn, down, up, shiftUp>>
                /\ (typed /\ r.modifiers = 0) => Appended = <<down, up>>
                /\ OwnKeyUps(Appended)
                /\ KeysHeld({}, Appended) = {}]_vars
    /\ [](pc = "flushed" =>
            KeysHeld({}, obs.submitted) = {} /\ keysDown = {})

\* The flush of a Shift character and a plain one, typed through their keys,
\* has been accepted whole.
C34_Witness ==
    /\ pc = "flushed" /\ flushCtx = "chunk"
    /\ resolvedMode = "VKScancode" /\ strategy = "Burst"
    /\ text = <<"A", "'">>
    /\ Len(obs.submitted) = 12

\* ------------------------------------------------------------------------
\* Shift left down by a flush that stopped
\* ------------------------------------------------------------------------
\* A flush loop submits the first event of its buffer.
FirstEventStep ==
    /\ pc = "flush" /\ offset = 0 /\ sent = 0
    /\ offset' # offset \/ consecutiveFailures' # consecutiveFailures

\* C35: the first event of a flush and the Enter pair are never submitted
\* while a Shift pressed by an earlier flush is still down at the target.
C35_NoEventWhileShiftDown ==
    [][(FirstEventStep \/ EnterStep) => "VK_LSHIFT" \notin keysDown]_vars

\* ------------------------------------------------------------------------
\* The line-start guard
\* ------------------------------------------------------------------------
\* The pause after a chunk flush is computed.
ChunkPauseStep == pc = "flushed" /\ flushCtx = "chunk" /\ pc' = "loop"

\* The character at position p (from 0) is one of the first
\* LINE_START_GUARD_CHARS characters after a line break of the text.
AfterLineBreak(p) ==
    \E q \in 0..(p - 1) :
       /\ IsNewline(CharAt(text, q))
       /\ p - q <= LINE_START_GUARD_CHARS
       /\ \A n \in (q + 1)..p : ~IsNewline(CharAt(text, n))

\* The positions of the characters of the chunk that was flushed.
FlushedPositions == (i - charsInBuffer + 1)..i

\* C36: the pause after a chunk flush contains the guard delay exactly when
\* a flushed character is one of the first three characters after a line
\* break.
C36_GuardExactlyAfterLineBreak ==
    [][ChunkPauseStep =>
         LET plain == PauseMs([PacingConfig(strategy) EXCEPT
                                 !.lineStartGuardMs = 0], charsSinceNewline)
         IN  /\ pauseMs' \in {plain, plain + LINE_START_GUARD_MS}
             /\ (pauseMs' = plain + LINE_START_GUARD_MS)
                  <=> (\E p \in FlushedPositions : AfterLineBreak(p))]_vars

\* ------------------------------------------------------------------------
\* The abort monitor called on its own
\* ------------------------------------------------------------------------
\* Longest sequence of calls followed.
MaxHookCalls == 6

\* SetWindowsHookExW(WH_KEYBOARD_LL, ...): one more hook when it succeeds.
SetWindowsHookExW(n, ok) == IF ok THEN n + 1 ELSE n

\* UnhookWindowsHookEx(g_abortHook)
UnhookWindowsHookEx(n) == n - 1

\* InstallAbortHook(): the early return, or the flag cleared and the handle
\* SetWindowsHookExW returned (null when it failed).
HookInstall ==
    /\ pc = "idle"
    /\ Len(hookCalls) < MaxHookCalls
    /\ \E ok \in BOOLEAN :
         IF AlreadyInstalled(Hk)
         THEN /\ SetHook(InstallAbortHook(Hk))
              /\ UNCHANGED hooks
         ELSE /\ SetHook([InstallAbortHook(Hk) EXCEPT !.hook = ok])
              /\ hooks' = SetWindowsHookExW(hooks, ok)
    /\ hookCalls' = Append(hookCalls, "InstallAbortHook")
    /\ UNCHANGED <<pipelineVarsNoFn, shellVars, sentAtAbort, normInput,
                   normResult, normTwice, normPc, flushArg, twin,
                   callerVars>>

\* RemoveAbortHook(): unhook when there is a handle, clear the flag.
HookRemove ==
    /\ pc = "idle"
    /\ Len(hookCalls) < MaxHookCalls
    /\ SetHook(RemoveAbortHook(Hk))
    /\ hooks' = IF g_abortHook THEN UnhookWindowsHookEx(hooks) ELSE hooks
    /\ hookCalls' = Append(hookCalls, "RemoveAbortHook")
    /\ UNCHANGED <<pipelineVarsNoFn, shellVars, sentAtAbort, normInput,
                   normResult, normTwice, normPc, flushArg, twin,
                   callerVars>>

HookNext == HookInstall \/ HookRemove \/ UserKey

HookSpec == Init /\ [][HookNext]_vars

InstallCall == hookCalls' = Append(hookCalls, "InstallAbortHook")

RemoveCall == hookCalls' = Append(hookCalls, "RemoveAbortHook")

\* C37: after any sequence of install and remove calls the system holds at
\* most one hook of the program, and one exactly when the handle is set; an
\* install while installed and a remove while not installed change nothing;
\* after a remove no hook is installed.
C37_MonitorIdempotent ==
    /\ [](hooks \in {0, 1} /\ (g_abortHook <=> hooks = 1))
    /\ [][(InstallCall /\ g_abortHook) =>
            UNCHANGED <<hooks, g_abortHook, g_abortRequested, abortCause>>]_vars
    /\ [][(RemoveCall /\ ~g_abortHook) =>
            UNCHANGED <<hooks, g_abortHook, g_abortRequested, abortCause>>]_vars
    /\ [][RemoveCall => (hooks' = 0 /\ ~g_abortHook')]_vars

\* Two installs in a row, then two removes in a row.
C37_Witness ==
    /\ hookCalls = <<"InstallAbortHook", "InstallAbortHook",
                     "RemoveAbortHook", "RemoveAbortHook">>
    /\ hooks = 0 /\ ~g_abortHook

\* ------------------------------------------------------------------------
\* The Aborted exit
\* ------------------------------------------------------------------------
RECURSIVE WalkedChars(_, _)
\* The characters of t before position n that the walk encodes or sends as
\* Enter: all but the CR of a CR LF pair.
WalkedChars(t, n) ==
    IF n = 0 THEN 0
    ELSE WalkedChars(t, n - 1) + (IF IsCRLFSkip(t, n - 1) THEN 0 ELSE 1)

\* C38: at an Aborted return nothing is pending (the buffer is empty and
\* charsInBuffer is 0) and the returned charsSent counts every character
\* the walk has encoded or sent as Enter before the abort.
C38_AbortLosesNoCharacter ==
    Aborted =>
        /\ buffer = <<>>
        /\ charsInBuffer = 0
        /\ charsSent = WalkedChars(text, i)

\* A Burst run aborted after its first chunk: the flag was set while that
\* chunk was pending or being flushed, and both characters are counted.
C38_Witness ==
    /\ Aborted
    /\ strategy = "Burst"
    /\ Len(text) = 3 /\ i = 2
    /\ sentAtAbort = 0
    /\ charsSent = 2

\* ------------------------------------------------------------------------
\* The caller's status line
\* ------------------------------------------------------------------------
\* Longest source text of the calls followed to the status line.
MaxSourceLen == 2

ReportChars == {"A", "HELLIP", "CR", "LF"}

ReportTexts == UNION {[1..n -> ReportChars] : n \in 1..MaxSourceLen}

\* size_t charsSent = sendTextToWindow(textContent, true), diagnostics off:
\* the text is normalised and the pipeline entered.
CallSendTextToWindow ==
    /\ pc = "idle"
    /\ \E t \in ReportTexts, remote \in BOOLEAN, m \in InjectionMode,
          k \in Accepts(6) :
         /\ callerText' = t
         /\ isRemote' = remote
         /\ EnterPipeline(NormalizeSmartCharacters(t), m,
                          GetDefaultPacingConfig(remote).strategy, k)
    /\ status' = "Executing..."
    /\ diag' = NoDiag
    /\ UNCHANGED <<shellVars, acceptAll, normInput, normResult, normTwice,
                   normPc, flushArg, twin, monitorVars>>

\* if (charsSent < textContent.length()) "Interrupted at ..."
ReportsInterrupted(returned, content) == returned < Len(content)

\* The caller's test of the returned count, and its status line.
CompareCount ==
    /\ pc = "done"
    /\ status' = IF ReportsInterrupted(charsSent, callerText)
                 THEN "Interrupted" ELSE "Ready"
    /\ ReturnToIdle
    /\ UNCHANGED <<shellVars, acceptAll, isRemote, normInput, normResult,
                   normTwice, normPc, flushArg, twin, monitorVars, callerText>>

ReportNext ==
    \/ CallSendTextToWindow
    \/ UserKey
    \/ PipelineStep
    \/ CompareCount

ReportSpec == Init /\ [][ReportNext]_vars

\* C39: when the caller has the returned count, it reports the run as
\* interrupted exactly when the run was Aborted or Failed, whatever the
\* source text.
C39_InterruptedIffNotCompleted ==
    [][(Returned /\ pc' = "idle") =>
         /\ Completed => status' # "Interrupted"
         /\ (Aborted \/ Failed) => status' = "Interrupted"]_vars

\* ------------------------------------------------------------------------
\* The arm state machine
\* ------------------------------------------------------------------------
\* sendTextToWindow is entered from the caller.
EntryOf(caller) == callStack' = Append(callStack, caller)

\* The innermost invocation returns to the caller, which runs to its end.
ReturnTo(caller) ==
    /\ callStack # <<>>
    /\ callStack[Len(callStack)] = caller
    /\ callStack' = SubSeq(callStack, 1, Len(callStack) - 1)

\* A handler that enters no run and returns from none changes the arm state:
\* CancelArm, StartArmCountdown with a delay, a countdown tick, or an
\* ExecutePaste that found no text to send.
ArmStep ==
    /\ callStack' = callStack
    /\ <<isArmed, countdownRemaining, countdownTimer>>'
         # <<isArmed, countdownRemaining, countdownTimer>>

\* C40: the shell, once armed by StartArmCountdown, stays armed until
\* CancelArm runs or the ExecutePaste of that countdown returns; every exit
\* of ExecutePaste leaves isArmed false and the countdown timer stopped; the
\* timer runs only while armed, so a cancelled countdown starts no paste; and
\* the hotkey paste is entered only when the shell is not armed.
C40_ArmStateMachine ==
    /\ [][(isArmed /\ ~isArmed') =>
            \/ ArmStep
            \/ ReturnTo("ExecutePaste") /\ ~countdownTimer]_vars
    /\ [][ReturnTo("ExecutePaste") => (~isArmed' /\ ~countdownTimer')]_vars
    /\ [][(ArmStep /\ isArmed /\ ~isArmed') => ~countdownTimer']_vars
    /\ [](countdownTimer => isArmed)
    /\ [][EntryOf("ExecutePaste") =>
            \/ countdownTimer /\ countdownRemaining <= 1
            \/ ~isArmed /\ ~countdownTimer]_vars
    /\ [][EntryOf("ExecuteImmediatePaste") => ~isArmed]_vars

====
